---- MODULE Spec2Model ----
(***************************************************************************)
(* Model of the MCU dashboard's layout code.                               *)
(*                                                                         *)
(*  - McuConnections: catalog load, resize, arc-type filter, and the draw  *)
(*    effect that resolves CONNECTIONS against the catalog, sorts the arcs *)
(*    and gives each arc a lane (assignLanes).                             *)
(*                                                                         *)
(* Pixel positions produced by d3.scaleTime are fractions.  They are kept  *)
(* exact: every horizontal pixel value of one drawing is stored as its     *)
(* numerator over the common denominator ScaleDen(movies), so a stored     *)
(* value v stands for v / den pixels and the 8 px gap is 8 * den.          *)
(***************************************************************************)
EXTENDS Integers, Naturals, Sequences, FiniteSets, TLC

(* ------------------------------ bounds --------------------------------- *)
\* release dates of the catalog are 0..MaxDate (abstract days)
MaxDate == 3
\* the rows of the catalog are of phases 1..MaxPhase
MaxPhase == 3

(* --------------------------- generic helpers --------------------------- *)
Min(a, b) == IF a < b THEN a ELSE b
Max(a, b) == IF a > b THEN a ELSE b
Front(s) == SubSeq(s, 1, Len(s) - 1)
Last(s) == s[Len(s)]

\* Array.prototype.filter on a sequence of records, by membership of the
\* position in a set of kept positions
RECURSIVE KeepIdx(_, _)
KeepIdx(s, keep) ==
  IF s = <<>> THEN <<>>
  ELSE LET rest == KeepIdx(Front(s), keep)
       IN IF Len(s) \in keep THEN Append(rest, Last(s)) ELSE rest

(* ------------------------- McuConnections.tsx -------------------------- *)
Connection(t, f, to, s) == [type |-> t, from |-> f, to |-> to, side |-> s]

CONNECTIONS == <<
    Connection("sequel", "Iron Man", "Iron Man 2", "top"),
    Connection("sequel", "Iron Man 2", "Iron Man 3", "bottom"),
    Connection("crossover", "Iron Man 2", "The Avengers", "top"),
    Connection("sequel", "Thor", "Thor: The Dark World", "bottom"),
    Connection("crossover", "Thor", "The Avengers", "bottom"),
    Connection("sequel", "Captain America: The First Avenger", "Captain America: The Winter Soldier", "top"),
    Connection("crossover", "Captain America: The First Avenger", "The Avengers", "top"),
    Connection("sequel", "The Avengers", "Avengers: Age of Ultron", "top"),
    Connection("carryover", "The Avengers", "Thor: The Dark World", "bottom"),
    Connection("carryover", "The Avengers", "Captain America: The Winter Soldier", "top"),
    Connection("crossover", "Iron Man 3", "Avengers: Age of Ultron", "top"),
    Connection("sequel", "Thor: The Dark World", "Thor: Ragnarok", "bottom"),
    Connection("crossover", "Thor: The Dark World", "Avengers: Age of Ultron", "top"),
    Connection("sequel", "Captain America: The Winter Soldier", "Captain America: Civil War", "bottom"),
    Connection("crossover", "Captain America: The Winter Soldier", "Avengers: Age of Ultron", "top"),
    Connection("carryover", "Captain America: The Winter Soldier", "Avengers: Age of Ultron", "bottom"),
    Connection("sequel", "Guardians of the Galaxy", "Guardians of the Galaxy Vol. 2", "top"),
    Connection("sequel", "Avengers: Age of Ultron", "Avengers: Infinity War", "top"),
    Connection("carryover", "Avengers: Age of Ultron", "Captain America: Civil War", "top"),
    Connection("sequel", "Ant-Man", "Ant-Man and the Wasp", "bottom"),
    Connection("crossover", "Ant-Man", "Captain America: Civil War", "top"),
    Connection("crossover", "Captain America: Civil War", "Avengers: Infinity War", "top"),
    Connection("carryover", "Captain America: Civil War", "Black Widow", "top"),
    Connection("sequel", "Captain America: Civil War", "Captain America: Brave New World", "bottom"),
    Connection("carryover", "Captain America: Civil War", "Spider-Man: Homecoming", "bottom"),
    Connection("carryover", "Captain America: Civil War", "Black Panther", "top"),
    Connection("sequel", "Doctor Strange", "Doctor Strange in the Multiverse of Madness", "top"),
    Connection("crossover", "Doctor Strange", "Avengers: Infinity War", "bottom"),
    Connection("sequel", "Guardians of the Galaxy Vol. 2", "Guardians of the Galaxy Vol. 3", "top"),
    Connection("crossover", "Guardians of the Galaxy Vol. 2", "Avengers: Infinity War", "top"),
    Connection("sequel", "Spider-Man: Homecoming", "Spider-Man: Far From Home", "top"),
    Connection("crossover", "Spider-Man: Homecoming", "Avengers: Infinity War", "bottom"),
    Connection("sequel", "Thor: Ragnarok", "Thor: Love and Thunder", "top"),
    Connection("crossover", "Thor: Ragnarok", "Avengers: Infinity War", "bottom"),
    Connection("carryover", "Thor: Ragnarok", "Avengers: Infinity War", "top"),
    Connection("sequel", "Black Panther", "Black Panther: Wakanda Forever", "top"),
    Connection("crossover", "Black Panther", "Avengers: Infinity War", "top"),
    Connection("sequel", "Avengers: Infinity War", "Avengers: Endgame", "top"),
    Connection("sequel", "Ant-Man and the Wasp", "Ant-Man and the Wasp: Quantumania", "bottom"),
    Connection("sequel", "Captain Marvel", "The Marvels", "top"),
    Connection("crossover", "Captain Marvel", "Avengers: Endgame", "bottom"),
    Connection("carryover", "Avengers: Endgame", "Spider-Man: Far From Home", "top"),
    Connection("sequel", "Spider-Man: Far From Home", "Spider-Man: No Way Home", "bottom"),
    Connection("carryover", "Spider-Man: No Way Home", "Doctor Strange in the Multiverse of Madness", "top")
>>

ArcTypes == {"sequel", "crossover", "carryover"}
FilterModes == {"all"} \cup ArcTypes

\* The rows of /data/marvel_movies_tmdb.csv, in file order.  A dataset gives
\* each of these titles a release date, or NoRow when the file has no valid
\* row for it (row missing, phase or date unparsable).
CsvTitles == << "The Avengers",
                "Thor: The Dark World",
                "Captain America: The Winter Soldier",
                "Avengers: Age of Ultron" >>
NoRow == -1
Datasets == [1..Len(CsvTitles) -> {NoRow} \cup (0..MaxDate)]

\* sizes the resize observer reports (content box of the container)
Sizes == { [width |-> 0, height |-> 0],
           [width |-> 164, height |-> 100],
           [width |-> 1140, height |-> 400] }

VARIABLES
  loadState,      \* "pending" until d3.csv resolves, then "done"
  phaseRanges,    \* useState<PhaseRange[]>: [phase, start, end], in half days
  movies,         \* useState<Movie[]>: sequence of [title, releaseDate]
  size,           \* useState<ComponentSize>
  filterMode,     \* useState<FilterMode>
  arcsWithLane,   \* data bound to path.arc of the current drawing
  pxDen           \* denominator of the pixel values in arcsWithLane

VARIABLES
  box,          \* content box of the container as the DOM has it
  debounced,    \* the debounced onResize: [timer, first, lastArgs, invoked]
  drawnSize,    \* size captured by the drawing that is in the svg
  overlays,     \* number of div.mcu-multi-tooltips in the container
  hasCleanup,   \* the last run of the draw effect returned its cleanup
  hovered,      \* title of the dot the pointer is on, or NoHover
  mcuLabels,    \* the div.mcu-label cards in the overlay, in data order
  staleCards,   \* history: the cards the current hover found in the overlay
  dotStyle,     \* attributes of circle.movie-dot, one per drawn movie
  arcLook       \* attributes of path.arc, one per arc of arcsWithLane

VARIABLES
  tlLoadState,        \* McuTimeline: "pending" until d3.csv resolves
  tlPhaseRanges,      \* McuTimeline: useState<PhaseRange[]>
  tlMovies,           \* McuTimeline: useState<Movie[]>
  tlSize,             \* McuTimeline: useState<ComponentSize>
  importantWithLanes, \* McuTimeline: the important movies with their lanes
  tlDen               \* denominator of the pixel values in importantWithLanes

VARIABLES
  plSize,   \* label placer: the container box of the overlay
  plBand,   \* label placer: the band of the last layout pass, or "none"
  plNodes   \* label placer: the cards of that band after the pass

VARIABLES
  rtLoadState,          \* ratings chart: "pending" until d3.csv resolves
  rtMovies,             \* ratings chart: useState<Movie[]>, the release years
  rtSize,               \* ratings chart: useState<ComponentSize>
  rtDebounced,          \* ratings chart: the debounced onResize
  selectedReviewsYear,  \* App: useState<Number | null>, the pinned year
  closureYear,          \* the selectedReviewsYear binding the drawn handlers close over
  rtPoints,             \* years of the circles of the current drawing
  rtBig,                \* years whose circle has the enlarged radius and stroke
  rtHover,              \* year of the circle the pointer is on, or NoYear
  rtTooltip,            \* #average-ratings-tooltip: [visible, at]
  rtTooltips            \* number of #average-ratings-tooltip divs in the container

VARIABLES
  mounted,     \* App and the charts in it are mounted
  unhandled,   \* charts whose loadData promise rejected with no handler on it
  thrown       \* charts whose draw effect threw

VARIABLES
  dpLoadState,  \* dot plot: "pending" until the two d3.csv calls settle
  bins,         \* dot plot: useState<YearBin[]>
  yearDomain,   \* dot plot: useState<{minYear, maxYear} | null>
  dpSize,       \* dot plot: useState<ComponentSize>
  dpDots,       \* dot plot: the bins whose circles are in the svg
  tickYears     \* dot plot: the data of line.year-mark and text.year-tick

VARIABLES
  rvLoadState,  \* revenue bars: "pending" until d3.csv settles
  rvMovies,     \* revenue bars: useState<Movie[]>, the release years
  rvSize,       \* revenue bars: useState<ComponentSize>
  rvBars,       \* revenue bars: years of the bars in the svg
  rvAnnotated,  \* revenue bars: the 2019 annotation is in the svg
  rvTooltips    \* number of #revenue-comparison-tooltip divs in the container

VARIABLES
  rwLoadState,      \* reviews: "pending" until both d3.csv calls settle
  rwMovies,         \* reviews: useState<Movie[]>, [title, releaseYear]
  rwReviews,        \* reviews: useState<Review[]>, the movie of each review
  filteredReviews   \* reviews: useState<Review[]>, the reviews on show

hoverVars == << box, debounced, drawnSize, overlays, hasCleanup, hovered, mcuLabels, staleCards, dotStyle, arcLook >>
connVars == << loadState, phaseRanges, movies, size, filterMode, arcsWithLane, pxDen, hoverVars >>
tlVars == << tlLoadState, tlPhaseRanges, tlMovies, tlSize, importantWithLanes, tlDen >>
plVars == << plSize, plBand, plNodes >>
rtVars == << rtLoadState, rtMovies, rtSize, rtDebounced, selectedReviewsYear, closureYear,
            rtPoints, rtTooltips, rtBig, rtHover, rtTooltip >>
appVars == << mounted, unhandled, thrown >>
dpVars == << dpLoadState, bins, yearDomain, dpSize, dpDots, tickYears >>
rvVars == << rvLoadState, rvMovies, rvSize, rvBars, rvTooltips, rvAnnotated >>
rwVars == << rwLoadState, rwMovies, rwReviews, filteredReviews >>
restVars == << appVars, dpVars, rvVars, rwVars >>
vars == << connVars, tlVars, plVars, rtVars, restVars >>

\* the flag of a load effect, set by the cleanup the effect returns; the
\* charts are children of App and are unmounted with it
cancelled == ~mounted

\* the phase column of the rows: parsePhase accepts 1..6; the inputs use the
\* phases 1..MaxPhase
PHASES == << 1, 2, 3, 4, 5, 6 >>
PhaseAssignments == { ph \in [1..Len(CsvTitles) -> 1..MaxPhase] : ph[1] = 1 }
CsvPhases == [i \in 1..Len(CsvTitles) |-> IF i = 1 THEN 1 ELSE 2]
\* the release dates of the files the phase ranges are computed from
PhaseDatasets == [1..Len(CsvTitles) -> {NoRow} \cup {0, 1, 2}]

\* load(): rows.map(...).filter(x => x !== null), the rows having the dates
\* ds and the phases ph
RECURSIVE ParsedRows(_, _, _)
ParsedRows(ds, ph, n) ==
  IF n = 0 THEN <<>>
  ELSE LET rest == ParsedRows(ds, ph, n - 1)
       IN IF ds[n] = NoRow THEN rest
          ELSE Append(rest, [title |-> CsvTitles[n], phase |-> ph[n],
                             releaseDate |-> ds[n]])

\* .sort((a, b) => a.releaseDate.getTime() - b.releaseDate.getTime());
\* Array.prototype.sort is stable
RECURSIVE InsertMovie(_, _)
InsertMovie(s, m) ==
  IF s = <<>> THEN << m >>
  ELSE IF Head(s).releaseDate - m.releaseDate <= 0
       THEN << Head(s) >> \o InsertMovie(Tail(s), m)
       ELSE << m >> \o s

RECURSIVE SortMovies(_)
SortMovies(s) ==
  IF s = <<>> THEN <<>> ELSE InsertMovie(SortMovies(Front(s)), Last(s))

Parsed(ds, ph) == SortMovies(ParsedRows(ds, ph, Len(CsvTitles)))

\* d3.group(parsed, d => d.phase).get(p): indices of the movies of phase p
Grouped(ms, p) == { i \in 1..Len(ms) : ms[i].phase = p }
\* list[0].releaseDate and list[list.length - 1].releaseDate
FirstOf(ms, p) == ms[CHOOSE i \in Grouped(ms, p) : \A j \in Grouped(ms, p) : i <= j].releaseDate
LastOf(ms, p) == ms[CHOOSE i \in Grouped(ms, p) : \A j \in Grouped(ms, p) : i >= j].releaseDate
\* [1..6].filter(p => firstOf[p] && lastOf[p])
PhasesPresent(ms) ==
  KeepIdx(PHASES, { k \in 1..Len(PHASES) : Grouped(ms, PHASES[k]) # {} })
\* midpoint(a, b) = (a + b) / 2, kept as the number of half days a + b
PhaseDen == 2
\* a boundary put on the last release of the earlier phase
MidpointLeft(a, b) == PhaseDen * a
Midpoint(a, b) == a + b
\* the boundaries and the ranges cut at them, in half days
Boundaries(ms) ==
  LET phases == PhasesPresent(ms)
  IN << PhaseDen * ms[1].releaseDate >>
     \o [i \in 1..(Len(phases) - 1) |->
           Midpoint(LastOf(ms, phases[i]), FirstOf(ms, phases[i + 1]))]
     \o << PhaseDen * ms[Len(ms)].releaseDate >>
PhaseRanges(ms) ==
  IF Len(ms) = 0 THEN <<>>
  ELSE LET phases == PhasesPresent(ms)
           boundaries == Boundaries(ms)
       IN [i \in 1..Len(phases) |->
             [phase |-> phases[i], start |-> boundaries[i],
              end |-> boundaries[i + 1]]]

\* d3.scaleTime().domain([minDate, maxDate]).range([x0, x1])
MarginLeft == 70
MarginRight == 70
X0 == MarginLeft
X1(width) == width - MarginRight
MinDate(ms) == ms[1].releaseDate
MaxDateOf(ms) == ms[Len(ms)].releaseDate
\* the width of the domain taken as the denominator whatever it is
ScaleDenPlain(ms) == MaxDateOf(ms) - MinDate(ms)
ScaleDen(ms) ==
  IF MaxDateOf(ms) = MinDate(ms) THEN 2 ELSE MaxDateOf(ms) - MinDate(ms)
\* numerator of x(date) over ScaleDen(ms); a degenerate domain maps every
\* date to the midpoint of the range
ScaleX(date, ms, width) ==
  IF MaxDateOf(ms) = MinDate(ms)
  THEN X0 + X1(width)
  ELSE X0 * (MaxDateOf(ms) - MinDate(ms))
       + (date - MinDate(ms)) * (X1(width) - X0)

\* byTitle.get(t): the last movie with that title, or none
HasTitle(ms, t) == \E i \in 1..Len(ms) : ms[i].title = t
ByTitle(ms, t) ==
  ms[CHOOSE i \in 1..Len(ms) :
       /\ ms[i].title = t
       /\ \A j \in (i + 1)..Len(ms) : ms[j].title # t]

\* one element of CONNECTIONS.map(c => ...) that is not null
ResolvedArc(i, ms, width) ==
  LET c == CONNECTIONS[i]
      x1p == ScaleX(ByTitle(ms, c.from).releaseDate, ms, width)
      x2p == ScaleX(ByTitle(ms, c.to).releaseDate, ms, width)
  IN [idx |-> i, type |-> c.type, from |-> c.from, to |-> c.to,
      side |-> IF c.side = "undefined" THEN "top" ELSE c.side,
      x1 |-> x1p, x2 |-> x2p,
      leftX |-> Min(x1p, x2p), rightX |-> Max(x1p, x2p),
      span |-> Max(x1p, x2p) - Min(x1p, x2p)]

\* the resolution giving up on all relationships when one does not resolve
ResolvedUpToAbort(n, ms, width) ==
  IF \E k \in 1..n : ~(HasTitle(ms, CONNECTIONS[k].from) /\ HasTitle(ms, CONNECTIONS[k].to))
  THEN <<>>
  ELSE [k \in 1..n |-> ResolvedArc(k, ms, width)]

\* CONNECTIONS.map(...).filter(d => d !== null), first n connections
RECURSIVE ResolvedUpTo(_, _, _)
ResolvedUpTo(n, ms, width) ==
  IF n = 0 THEN <<>>
  ELSE LET rest == ResolvedUpTo(n - 1, ms, width)
           c == CONNECTIONS[n]
       IN IF HasTitle(ms, c.from) /\ HasTitle(ms, c.to)
          THEN Append(rest, ResolvedArc(n, ms, width))
          ELSE rest

\* the comparator without its span tie-break
ArcCmpLeftOnly(p, q) == p.leftX - q.leftX

\* the comparator (p, q) => p.leftX - q.leftX || q.span - p.span
ArcCmp(p, q) ==
  IF p.leftX - q.leftX # 0 THEN p.leftX - q.leftX ELSE q.span - p.span

\* an insertion that puts d before the elements it ties with
RECURSIVE InsertArcBeforeTies(_, _)
InsertArcBeforeTies(s, d) ==
  IF s = <<>> THEN << d >>
  ELSE IF ArcCmp(Head(s), d) < 0
       THEN << Head(s) >> \o InsertArcBeforeTies(Tail(s), d)
       ELSE << d >> \o s

\* stable sort by ArcCmp
RECURSIVE InsertArc(_, _)
InsertArc(s, d) ==
  IF s = <<>> THEN << d >>
  ELSE IF ArcCmp(Head(s), d) <= 0
       THEN << Head(s) >> \o InsertArc(Tail(s), d)
       ELSE << d >> \o s

\* no sort at all: the list stays in CONNECTIONS order
SortArcsOmitted(s) == s

RECURSIVE SortArcs(_)
SortArcs(s) ==
  IF s = <<>> THEN <<>> ELSE InsertArc(SortArcs(Front(s)), Last(s))

ResolvedAll(ms, width) == SortArcs(ResolvedUpTo(Len(CONNECTIONS), ms, width))

ResolvedVisible(ms, width, mode) ==
  LET all == ResolvedAll(ms, width)
  IN KeepIdx(all, {i \in 1..Len(all) : mode = "all" \/ all[i].type = mode})

OnSide(list, side) ==
  KeepIdx(list, {i \in 1..Len(list) : list[i].side = side})

\* the gap of assignLanes, in pixels
LaneGap == 8

\* the scan without the gap
RECURSIVE ScanLaneNoGap(_, _, _, _)
ScanLaneNoGap(lane, laneRightEnds, leftX, den) ==
  IF lane < Len(laneRightEnds) /\ leftX <= laneRightEnds[lane + 1]
  THEN ScanLaneNoGap(lane + 1, laneRightEnds, leftX, den)
  ELSE lane

\* the scan with < in place of <=
RECURSIVE ScanLaneStrict(_, _, _, _)
ScanLaneStrict(lane, laneRightEnds, leftX, den) ==
  IF lane < Len(laneRightEnds) /\ leftX < laneRightEnds[lane + 1] + LaneGap * den
  THEN ScanLaneStrict(lane + 1, laneRightEnds, leftX, den)
  ELSE lane

\* while (lane < laneRightEnds.length && d.leftX <= laneRightEnds[lane] + 8) lane++
\* (lane is 0-based as in the code; laneRightEnds[lane] is the TLA+ element lane + 1)
RECURSIVE ScanLane(_, _, _, _)
ScanLane(lane, laneRightEnds, leftX, den) ==
  IF lane < Len(laneRightEnds) /\ leftX <= laneRightEnds[lane + 1] + LaneGap * den
  THEN ScanLane(lane + 1, laneRightEnds, leftX, den)
  ELSE lane

WithLane(d, lane) ==
  [idx |-> d.idx, type |-> d.type, from |-> d.from, to |-> d.to,
   side |-> d.side, x1 |-> d.x1, x2 |-> d.x2,
   leftX |-> d.leftX, rightX |-> d.rightX, span |-> d.span, lane |-> lane]

\* an allocation that never reuses a lane
RECURSIVE AssignLanesRunFresh(_, _)
AssignLanesRunFresh(list, den) ==
  IF list = <<>> THEN [laneRightEnds |-> <<>>, out |-> <<>>]
  ELSE LET prev == AssignLanesRunFresh(Front(list), den)
           d == Last(list)
           lane == Len(prev.laneRightEnds)
       IN [laneRightEnds |-> Append(prev.laneRightEnds, d.rightX),
           out |-> Append(prev.out, WithLane(d, lane))]

\* assignLanes after the whole list: the lane right ends and the mapped list
RECURSIVE AssignLanesRun(_, _)
AssignLanesRun(list, den) ==
  IF list = <<>> THEN [laneRightEnds |-> <<>>, out |-> <<>>]
  ELSE LET prev == AssignLanesRun(Front(list), den)
           d == Last(list)
           lane == ScanLane(0, prev.laneRightEnds, d.leftX, den)
           ends == IF lane = Len(prev.laneRightEnds)
                   THEN Append(prev.laneRightEnds, d.rightX)
                   ELSE [prev.laneRightEnds EXCEPT ![lane + 1] = d.rightX]
       IN [laneRightEnds |-> ends, out |-> Append(prev.out, WithLane(d, lane))]

AssignLanes(list, den) == AssignLanesRun(list, den).out

\* arcsWithLane = [...arcsTop, ...arcsBottom]
ArcsWithLane(ms, width, mode) ==
  LET visible == ResolvedVisible(ms, width, mode)
  IN AssignLanes(OnSide(visible, "top"), ScaleDen(ms))
     \o AssignLanes(OnSide(visible, "bottom"), ScaleDen(ms))

NoHover == ""

\* dotR = 5, opacity 1 and dotStrokeW = 1.5; opacities are in hundredths and
\* stroke widths in tenths of a pixel
DotR == 5
DotStrokeW == 15
FullOpacity == 100
BaseDot == [r |-> DotR, opacity |-> FullOpacity, strokeW |-> DotStrokeW]

\* arcStyle[type].opacity and arcStyle[type].strokeWidth
BaseArcOpacity(d) ==
  IF d.type = "sequel" THEN 90 ELSE IF d.type = "crossover" THEN 85 ELSE 80
BaseArcStrokeW(d) == IF d.type = "sequel" THEN 22 ELSE 20
BaseArc(d) == [opacity |-> BaseArcOpacity(d), strokeW |-> BaseArcStrokeW(d)]

\* the tooltip elements of a container are counted up to MaxTooltips: a
\* count of MaxTooltips stands for that many or more
MaxTooltips == 2

\* selectAll(sel).data([null]).join('div') on a container that holds n
\* elements of the selection: the one datum binds to the first element, or
\* enters a new one when there is none, and every further element exits
JoinOne(n) == 1

\* container.append('div'): one more element, whatever is already there
AppendOne(n) == Min(n + 1, MaxTooltips)

\* useDebounceCallback(f, delay) with no options: a trailing-edge debounce.
\* The record holds its timer (a call is waiting for the delay to pass) and
\* lastArgs, and as history the arguments of the first call of the burst and
\* the number of times f has been invoked for the burst
NoArgs == [width |-> -1, height |-> -1]
Idle == [timer |-> FALSE, first |-> NoArgs, lastArgs |-> NoArgs, invoked |-> 0]

\* a call of the debounced function: it keeps the arguments and starts the
\* timer again; f is not invoked
DebounceCall(d, s) ==
  [timer |-> TRUE,
   first |-> IF d.timer THEN d.first ELSE s,
   lastArgs |-> s,
   invoked |-> IF d.timer THEN d.invoked ELSE 0]

\* the delay passes with no further call: f is invoked with lastArgs
DebounceExpire(d) == [d EXCEPT !.timer = FALSE, !.invoked = d.invoked + 1]

Positive(sz) == sz.width > 0 /\ sz.height > 0

\* a draw effect that looks at the catalog only, not at the size
DrawEffectNoSizeGuard(ms, sz, mode) ==
  /\ mcuLabels' = IF hasCleanup THEN <<>> ELSE mcuLabels
  /\ IF Len(ms) = 0
     THEN /\ hasCleanup' = FALSE
          /\ UNCHANGED << arcsWithLane, pxDen, drawnSize, overlays, hovered, staleCards,
                          dotStyle, arcLook >>
     ELSE /\ arcsWithLane' = ArcsWithLane(ms, sz.width, mode)
          /\ pxDen' = ScaleDen(ms)
          /\ drawnSize' = sz
          /\ overlays' = JoinOne(overlays)
          /\ hasCleanup' = TRUE
          /\ hovered' = NoHover
          /\ staleCards' = <<>>
          /\ dotStyle' = [i \in 1..Len(ms) |-> BaseDot]
          /\ arcLook' = [i \in 1..Len(arcsWithLane') |-> BaseArc(arcsWithLane'[i])]

\* the draw effect, run after every change of movies, size or filterMode:
\* first the cleanup the previous run returned (clearMultiTooltips), if it
\* returned one; then the effect, which returns early (leaving the svg as it
\* was, and returning no cleanup) unless the size is positive and the catalog
\* is non-empty; a drawing replaces every dot and arc of the svg
DrawEffect(ms, sz, mode) ==
  /\ mcuLabels' = IF hasCleanup THEN <<>> ELSE mcuLabels
  /\ IF sz.width <= 0 \/ sz.height <= 0 \/ Len(ms) = 0
     THEN /\ hasCleanup' = FALSE
          /\ UNCHANGED << arcsWithLane, pxDen, drawnSize, overlays, hovered, staleCards,
                          dotStyle, arcLook >>
     ELSE /\ arcsWithLane' = ArcsWithLane(ms, sz.width, mode)
          /\ pxDen' = ScaleDen(ms)
          /\ drawnSize' = sz
          /\ overlays' = JoinOne(overlays)
          /\ hasCleanup' = TRUE
          /\ hovered' = NoHover
          /\ staleCards' = <<>>
          /\ dotStyle' = [i \in 1..Len(ms) |-> BaseDot]
          /\ arcLook' = [i \in 1..Len(arcsWithLane') |-> BaseArc(arcsWithLane'[i])]

ConnInit ==
  /\ loadState = "pending"
  /\ phaseRanges = <<>>
  /\ movies = <<>>
  /\ size = [width |-> 0, height |-> 0]
  /\ filterMode = "all"
  /\ arcsWithLane = <<>>
  /\ pxDen = 1
  /\ box = [width |-> 0, height |-> 0]
  /\ debounced = Idle
  /\ drawnSize = [width |-> 0, height |-> 0]
  /\ overlays = 0
  /\ hasCleanup = FALSE
  /\ hovered = NoHover
  /\ mcuLabels = <<>>
  /\ staleCards = <<>>
  /\ dotStyle = <<>>
  /\ arcLook = <<>>

\* d3.csv resolves with rows of dates ds and phases ph: setMovies(parsed),
\* setPhaseRanges(ranges), then the draw effect
LoadRows(ds, ph) ==
  /\ loadState = "pending"
  /\ loadState' = "done"
  /\ IF cancelled
     THEN UNCHANGED << movies, phaseRanges, arcsWithLane, pxDen, drawnSize, overlays,
                       hasCleanup, hovered, mcuLabels, staleCards, dotStyle,
                       arcLook >>
     ELSE /\ movies' = Parsed(ds, ph)
          /\ phaseRanges' = PhaseRanges(movies')
          /\ DrawEffect(movies', size, filterMode)
  /\ UNCHANGED << size, filterMode, box, debounced, tlVars, plVars, rtVars, restVars >>

\* the load of a file whose rows have the phases of the films
Load(ds) == LoadRows(ds, CsvPhases)

\* d3.csv or the parsing rejects: the catch on load(), setMovies([])
LoadFail ==
  /\ loadState = "pending"
  /\ loadState' = "failed"
  /\ IF cancelled
     THEN UNCHANGED << movies, phaseRanges, arcsWithLane, pxDen, drawnSize, overlays,
                       hasCleanup, hovered, mcuLabels, staleCards, dotStyle,
                       arcLook >>
     ELSE /\ movies' = <<>>
          /\ phaseRanges' = <<>>
          /\ DrawEffect(movies', size, filterMode)
  /\ UNCHANGED << size, filterMode, box, debounced, tlVars, plVars, rtVars, restVars >>

\* the debounced onResize fires with the box the observer reported:
\* setSize(s), then the draw effect
Resize(s) ==
  /\ mounted
  /\ size' = s
  /\ box' = s
  /\ DrawEffect(movies, s, filterMode)
  /\ UNCHANGED << loadState, debounced, phaseRanges, movies, filterMode, tlVars, plVars, rtVars, restVars >>

\* an onResize that is not debounced: every notification is setSize(s) and
\* the draw effect
NotifyLeading(s) ==
  /\ mounted
  /\ box' = s
  /\ debounced' = [DebounceCall(debounced, s) EXCEPT !.invoked = 1]
  /\ size' = s
  /\ DrawEffect(movies, s, filterMode)
  /\ UNCHANGED << loadState, phaseRanges, movies, filterMode, tlVars, plVars, rtVars, restVars >>

\* the resize observer notifies the content box s: the debounced onResize
\* is called with it
Notify(s) ==
  /\ mounted
  /\ box' = s
  /\ debounced' = DebounceCall(debounced, s)
  /\ UNCHANGED << loadState, phaseRanges, movies, size, filterMode, arcsWithLane,
                  pxDen, drawnSize, overlays, hasCleanup, hovered, mcuLabels,
                  staleCards, dotStyle, arcLook, tlVars, plVars, rtVars, restVars >>

\* 50 ms pass with no further notification: the timer of the debounce runs
\* setSize(lastArgs), then the draw effect
DelayElapses ==
  /\ mounted
  /\ debounced.timer
  /\ debounced' = DebounceExpire(debounced)
  /\ size' = debounced.lastArgs
  /\ DrawEffect(movies, size', filterMode)
  /\ UNCHANGED << loadState, phaseRanges, movies, filterMode, box, tlVars, plVars, rtVars, restVars >>

\* a filter button is clicked: setFilterMode(m), then the draw effect
SetFilterMode(m) ==
  /\ mounted
  /\ filterMode # m
  /\ filterMode' = m
  /\ DrawEffect(movies, size, m)
  /\ UNCHANGED << loadState, phaseRanges, movies, size, box, debounced, tlVars, plVars, rtVars, restVars >>


(* ----------------------- McuTimeline (timeline) ------------------------ *)
\* the annotation side of the hand-picked important movies
ImportantTop == { "The Avengers", "Captain America: The Winter Soldier",
                  "Black Panther", "Black Widow",
                  "The Fantastic 4: First Steps" }
ImportantBottom == { "Iron Man", "Iron Man 3", "Captain America: Civil War",
                     "Avengers: Endgame", "Spider-Man: No Way Home",
                     "Ant-Man and the Wasp: Quantumania", "The Marvels" }
IMPORTANT ==
  [t \in ImportantTop \cup ImportantBottom |->
     [anchor |-> IF t \in ImportantTop THEN "top" ELSE "bottom"]]

\* the rows of the CSV file the timeline is checked with, in file order
TimelineCsvTitles == << "Iron Man", "Thor", "The Avengers",
                        "Captain America: The Winter Soldier",
                        "Black Panther" >>
TimelineDatasets == [1..Len(TimelineCsvTitles) -> {NoRow} \cup (0..MaxDate)]

TimelineSizes == { [width |-> 0, height |-> 0],
                   [width |-> 220, height |-> 500],
                   [width |-> 1140, height |-> 500] }

\* the phase column of the rows of the file
TlCsvPhases == << 1, 1, 1, 2, 3 >>

\* load(): the parsed rows, with important and anchor from IMPORTANT[title]
RECURSIVE TlParsedRows(_, _)
TlParsedRows(ds, n) ==
  IF n = 0 THEN <<>>
  ELSE LET rest == TlParsedRows(ds, n - 1)
           title == TimelineCsvTitles[n]
       IN IF ds[n] = NoRow THEN rest
          ELSE Append(rest,
                 [title |-> title, phase |-> TlCsvPhases[n],
                  releaseDate |-> ds[n],
                  important |-> title \in DOMAIN IMPORTANT,
                  anchor |-> IF title \in DOMAIN IMPORTANT
                             THEN IMPORTANT[title].anchor ELSE "undefined"])

TlParsed(ds) == SortMovies(TlParsedRows(ds, Len(TimelineCsvTitles)))

PosterW == 48
LabelW == 80
XPad == 10

\* annoTop = (d.anchor ?? 'top') === 'top'
AnnoTop(d) == (IF d.anchor = "undefined" THEN "top" ELSE d.anchor) = "top"

\* the getHalfWidth callbacks of the two assignLanes calls
GetHalfWidth(d, side) ==
  IF side = "top"
  THEN (IF AnnoTop(d) THEN LabelW ELSE PosterW) \div 2
  ELSE (IF AnnoTop(d) THEN PosterW ELSE LabelW) \div 2

\* half without the padding
HalfNoPad(d, side) == GetHalfWidth(d, side)

\* const half = getHalfWidth(d) + xPad
Half(d, side) == GetHalfWidth(d, side) + XPad

\* [...items].sort((a, b) => x(a.releaseDate) - x(b.releaseDate)), stable;
\* items carry their pixel position cx
RECURSIVE InsertByX(_, _)
InsertByX(s, d) ==
  IF s = <<>> THEN << d >>
  ELSE IF Head(s).cx - d.cx <= 0
       THEN << Head(s) >> \o InsertByX(Tail(s), d)
       ELSE << d >> \o s

RECURSIVE SortByX(_)
SortByX(s) ==
  IF s = <<>> THEN <<>> ELSE InsertByX(SortByX(Front(s)), Last(s))

\* while (lane < lanes.length && left <= lanes[lane]) lane++
RECURSIVE TlScanLane(_, _, _)
TlScanLane(lane, lanes, left) ==
  IF lane < Len(lanes) /\ left <= lanes[lane + 1]
  THEN TlScanLane(lane + 1, lanes, left)
  ELSE lane

\* the for loop of assignLanes over the sorted items: the lane right ends and
\* the lane given to each title
RECURSIVE TlAssignRun(_, _, _)
TlAssignRun(sorted, side, den) ==
  IF sorted = <<>> THEN [lanes |-> <<>>, laneOf |-> <<>>]
  ELSE LET prev == TlAssignRun(Front(sorted), side, den)
           d == Last(sorted)
           left == d.cx - Half(d, side) * den
           right == d.cx + Half(d, side) * den
           lane == TlScanLane(0, prev.lanes, left)
           lanes == IF lane = Len(prev.lanes)
                    THEN Append(prev.lanes, right)
                    ELSE [prev.lanes EXCEPT ![lane + 1] = right]
       IN [lanes |-> lanes,
           laneOf |-> Append(prev.laneOf, [title |-> d.title, lane |-> lane])]

\* the lane assignLanes(items, getHalfWidth, side) writes on item d
TlLaneOf(d, items, side, den) ==
  LET laneOf == TlAssignRun(SortByX(items), side, den).laneOf
  IN laneOf[CHOOSE k \in 1..Len(laneOf) : laneOf[k].title = d.title].lane

\* importantMovies.map(d => d as LaneDatum), with the pixel position
RECURSIVE ImportantItems(_, _, _)
ImportantItems(ms, n, width) ==
  IF n = 0 THEN <<>>
  ELSE LET rest == ImportantItems(ms, n - 1, width)
       IN IF ms[n].important
          THEN Append(rest, [title |-> ms[n].title, anchor |-> ms[n].anchor,
                             cx |-> ScaleX(ms[n].releaseDate, ms, width)])
          ELSE rest

\* the two assignLanes calls: every important movie gets __laneTop and
\* __laneBottom
ImportantWithLanes(ms, width) ==
  LET items == ImportantItems(ms, Len(ms), width)
  IN [i \in 1..Len(items) |->
        [title |-> items[i].title, anchor |-> items[i].anchor,
         cx |-> items[i].cx,
         laneTop |-> TlLaneOf(items[i], items, "top", ScaleDen(ms)),
         laneBottom |-> TlLaneOf(items[i], items, "bottom", ScaleDen(ms))]]

\* the timeline's draw effect, with the same guard as the connections view
TlDrawEffect(ms, sz) ==
  IF sz.width <= 0 \/ sz.height <= 0 \/ Len(ms) = 0
  THEN UNCHANGED << importantWithLanes, tlDen >>
  ELSE /\ importantWithLanes' = ImportantWithLanes(ms, sz.width)
       /\ tlDen' = ScaleDen(ms)

TlInit ==
  /\ tlLoadState = "pending"
  /\ tlPhaseRanges = <<>>
  /\ tlMovies = <<>>
  /\ tlSize = [width |-> 0, height |-> 0]
  /\ importantWithLanes = <<>>
  /\ tlDen = 1

TlLoad(ds) ==
  /\ tlLoadState = "pending"
  /\ tlLoadState' = "done"
  /\ IF cancelled
     THEN UNCHANGED << tlMovies, tlPhaseRanges, importantWithLanes, tlDen >>
     ELSE /\ tlMovies' = TlParsed(ds)
          /\ tlPhaseRanges' = PhaseRanges(tlMovies')
          /\ TlDrawEffect(tlMovies', tlSize)
  /\ UNCHANGED << tlSize, connVars, plVars, rtVars, restVars >>

\* d3.csv or the parsing rejects: the catch on load(), setMovies([])
TlLoadFail ==
  /\ tlLoadState = "pending"
  /\ tlLoadState' = "failed"
  /\ IF cancelled
     THEN UNCHANGED << tlMovies, tlPhaseRanges, importantWithLanes, tlDen >>
     ELSE /\ tlMovies' = <<>>
          /\ tlPhaseRanges' = <<>>
          /\ TlDrawEffect(tlMovies', tlSize)
  /\ UNCHANGED << tlSize, connVars, plVars, rtVars, restVars >>

TlResize(s) ==
  /\ mounted
  /\ tlSize' = s
  /\ TlDrawEffect(tlMovies, s)
  /\ UNCHANGED << tlLoadState, tlPhaseRanges, tlMovies, connVars, plVars, rtVars, restVars >>


(* ------------- McuConnections: the label placer (tooltips) ------------- *)
(* Vertical positions are kept exact in units of 1/PushDen px, because     *)
(* every push is 0.6 = PushNum/PushDen times an integer; the top written   *)
(* as `${nextTop}px` and read back by parseFloat is the number written.    *)
(* Horizontal positions cx and left are numerators over a denominator den, *)
(* as for the arcs; card widths and heights are whole pixels.              *)
\* bound: the number of cards of one band in a layout pass
MaxBoxes == 3

PushNum == 3
PushDen == 5
LabelGap == 4
RetryCap == 60
ViewportPad == 6
CardW == 260
CardEdge == 10
TopBaseOffset == 80
BottomBaseOffset == 18

\* clamp(v, lo, hi) = Math.max(lo, Math.min(hi, v))
Clamp(v, lo, hi) == Max(lo, Min(hi, v))

\* overlaps(a, b, pad): a and b are cards [left, w, h, top]; the horizontal
\* edges are left -/+ w/2 (transform: translate(-50%, 0)), compared after
\* multiplying by 2 * den; the vertical edges are top and top + h
Overlaps(a, b, pad, den) ==
  ~(\/ 2 * a.left + a.w * den + 2 * pad * den < 2 * b.left - b.w * den
    \/ 2 * a.left - a.w * den > 2 * b.left + b.w * den + 2 * pad * den
    \/ a.top + PushDen * a.h + PushDen * pad < b.top
    \/ a.top > b.top + PushDen * b.h)

\* for (let j = 0; j < i; j++) { if (overlaps(aRect, bRect, gap)) ... break }:
\* the first placed card that a overlaps, or 0
FirstOverlap(a, placed, den) ==
  LET hits == {j \in 1..Len(placed) : Overlaps(a, placed[j], LabelGap, den)}
  IN IF hits = {} THEN 0 ELSE CHOOSE j \in hits : \A k \in hits : j <= k

\* nextTop = clamp(currentTop + pushBy, minTop, maxTop)
NextTop(a, b, direction, containerH) ==
  Clamp(a.top + (IF direction = "up" THEN -1 ELSE 1) * (b.h + LabelGap) * PushNum,
        ViewportPad * PushDen,
        (containerH - a.h - ViewportPad) * PushDen)

\* the loop test with <= in place of <
GuardAllowsOneMore(guard) == guard <= RetryCap

\* guard++ < 60
GuardAllows(guard) == guard < RetryCap

\* while (moved && guard++ < 60) { ... }: a is the card being placed, guard
\* the number of loop bodies run so far; the result is the card with its
\* final top, the number of loop bodies (iters) and of pushes
RECURSIVE RetryLoop(_, _, _, _, _, _)
RetryLoop(a, placed, guard, direction, containerH, den) ==
  IF ~GuardAllows(guard) THEN [a EXCEPT !.iters = guard]
  ELSE LET j == FirstOverlap(a, placed, den)
       IN IF j = 0 THEN [a EXCEPT !.iters = guard + 1]
          ELSE RetryLoop([a EXCEPT !.top = NextTop(a, placed[j], direction, containerH),
                                   !.pushes = a.pushes + 1],
                         placed, guard + 1, direction, containerH, den)

\* nodes.sort((p, q) => p.cx - q.cx), stable
SortNodes(nodes) == SortByX(nodes)

\* the outer for loop over the sorted nodes, all of them at baseTop first
RECURSIVE PlaceAll(_, _, _, _, _)
PlaceAll(sorted, baseTop, direction, containerH, den) ==
  IF sorted = <<>> THEN <<>>
  ELSE LET placed == PlaceAll(Front(sorted), baseTop, direction, containerH, den)
           a == [Last(sorted) EXCEPT !.top = baseTop * PushDen]
       IN Append(placed, RetryLoop(a, placed, 0, direction, containerH, den))

ResolveBandVerticalLayout(nodes, baseTop, direction, containerH, den) ==
  PlaceAll(SortNodes(nodes), baseTop, direction, containerH, den)

\* yMid = Math.round(height / 2)
YMid(height) == (height + 1) \div 2
TopBase(height) == YMid(height) - TopBaseOffset
BottomBase(height) == YMid(height) + BottomBaseOffset

\* left = clamp(cx, 10 + cardW / 2, containerBox.width - 10 - cardW / 2)
CardLeft(cx, width, den) ==
  Clamp(cx, (CardEdge + CardW \div 2) * den, (width - CardEdge - CardW \div 2) * den)

\* renderMultiTooltips, passes 1 and 2, for the cards of one band: cards is
\* the sequence of [cx, w, h] in DOM order
BandNode(c, width, den) ==
  [cx |-> c.cx, left |-> CardLeft(c.cx, width, den), w |-> c.w, h |-> c.h,
   top |-> 0, iters |-> 0, pushes |-> 0]

LayoutBand(cards, band, sz, den) ==
  ResolveBandVerticalLayout(
    [i \in 1..Len(cards) |-> BandNode(cards[i], sz.width, den)],
    IF band = "top" THEN TopBase(sz.height) ELSE BottomBase(sz.height),
    IF band = "top" THEN "up" ELSE "down",
    sz.height, den)

\* what the DOM reports for one card: its anchor pixel and its measured box
CardCxs == {300, 500, 700}
CardWidths == {260}
CardHeights == {18, 20, 33}
Cards == [cx : CardCxs, w : CardWidths, h : CardHeights]
\* the cards of a band reach the placer in ascending order of cx (the data
\* join keeps the order of the sorted items)
RECURSIVE CardLists(_)
CardLists(n) ==
  IF n = 0 THEN { <<>> }
  ELSE LET shorter == CardLists(n - 1)
       IN shorter \cup
          { Append(l, c) : l \in {k \in shorter : Len(k) = n - 1}, c \in Cards }
SortedCardLists ==
  { l \in CardLists(MaxBoxes) :
      Len(l) >= 1 /\ \A i \in 1..(Len(l) - 1) : l[i].cx <= l[i + 1].cx }

PlacerSizes == { [width |-> 164, height |-> 100],
                 [width |-> 1140, height |-> 400],
                 [width |-> 1140, height |-> 700] }

PlInit ==
  /\ plSize = [width |-> 1140, height |-> 400]
  /\ plBand = "none"
  /\ plNodes = <<>>

\* a hover lays out the cards of one band; the overlay holds no card before
\* (clearMultiTooltips has removed them)
LayoutPass(band, cards) ==
  /\ plBand = "none"
  /\ plBand' = band
  /\ plNodes' = LayoutBand(cards, band, plSize, 1)
  /\ UNCHANGED << plSize, connVars, tlVars, rtVars, restVars >>

\* clearMultiTooltips: overlay.selectAll('div.mcu-label').remove()
PlClear ==
  /\ plBand # "none"
  /\ plBand' = "none"
  /\ plNodes' = <<>>
  /\ UNCHANGED << plSize, connVars, tlVars, rtVars, restVars >>

\* the container is resized: the effect cleanup removes the cards
PlResize(s) ==
  /\ plSize # s
  /\ plSize' = s
  /\ plBand' = "none"
  /\ plNodes' = <<>>
  /\ UNCHANGED << connVars, tlVars, rtVars, restVars >>

(* ---------------- McuConnections: the hover highlight ------------------ *)
\* what getBoundingClientRect reports for a card: white-space: nowrap,
\* max-width: 260px, padding 8px 10px, border 1px around one line of 13px
\* text; the width follows the title, the height is that of one line
TitleWidth(t) ==
  CASE t = "The Avengers" -> 112
    [] t = "Thor: The Dark World" -> 170
    [] t = "Avengers: Age of Ultron" -> 190
    [] OTHER -> CardW
CardH == 33

SeqRange(q) == { q[i] : i \in 1..Len(q) }

\* the highlight set with the sources of the incoming arcs added as well
RECURSIVE HighlightTitlesBothWays(_, _)
HighlightTitlesBothWays(hoverTitle, arcs) ==
  IF arcs = <<>> THEN << hoverTitle >>
  ELSE LET prev == HighlightTitlesBothWays(hoverTitle, Front(arcs))
           a == Last(arcs)
       IN IF a.from = hoverTitle /\ a.to \notin SeqRange(prev)
          THEN Append(prev, a.to)
          ELSE IF a.to = hoverTitle /\ a.from \notin SeqRange(prev)
               THEN Append(prev, a.from) ELSE prev

\* const highlightTitles = new Set([hoverTitle]);
\* for (const a of outgoing) highlightTitles.add(a.to)   (insertion order)
RECURSIVE HighlightTitles(_, _)
HighlightTitles(hoverTitle, arcs) ==
  IF arcs = <<>> THEN << hoverTitle >>
  ELSE LET prev == HighlightTitles(hoverTitle, Front(arcs))
           a == Last(arcs)
       IN IF a.from = hoverTitle /\ a.to \notin SeqRange(prev)
          THEN Append(prev, a.to) ELSE prev

\* items: byTitle.get(t) for every highlighted title that has a movie, sorted
\* by x(releaseDate); each item carries its pixel position cx
RECURSIVE TooltipItems(_, _, _)
TooltipItems(titles, ms, width) ==
  IF titles = <<>> THEN <<>>
  ELSE LET rest == TooltipItems(Front(titles), ms, width)
           t == Last(titles)
       IN IF HasTitle(ms, t)
          THEN Append(rest, [title |-> t,
                             cx |-> ScaleX(ByTitle(ms, t).releaseDate, ms, width)])
          ELSE rest

\* cardData: top = isAnchor ? true : i % 2 === 0 (i counted from 0)
CardData(items, anchorTitle) ==
  [i \in 1..Len(items) |->
     [title |-> items[i].title, cx |-> items[i].cx,
      band |-> IF items[i].title = anchorTitle \/ (i - 1) % 2 = 0
               THEN "top" ELSE "bottom"]]

\* a card element: a kept element keeps its style.left and style.top, an
\* entered element has none (read as 0)
CardElement(d, old) ==
  LET kept == { j \in 1..Len(old) : old[j].title = d.title }
  IN [title |-> d.title, cx |-> d.cx, band |-> d.band,
      w |-> TitleWidth(d.title), h |-> CardH, iters |-> 0, pushes |-> 0,
      left |-> IF kept = {} THEN 0 ELSE old[CHOOSE j \in kept : TRUE].left,
      top |-> IF kept = {} THEN 0 ELSE old[CHOOSE j \in kept : TRUE].top]

\* the data join without card.exit().remove(): the cards of the overlay that
\* are not in the new data stay behind the new ones
JoinCardsKeepExit(old, data) ==
  [i \in 1..Len(data) |-> CardElement(data[i], old)]
  \o KeepIdx(old, { j \in 1..Len(old) :
                      \A i \in 1..Len(data) : data[i].title # old[j].title })

\* overlay.selectAll('div.mcu-label').data(cardData, d => d.m.id);
\* card.exit().remove(); enter.merge(card): one element per datum, in data order
JoinCards(old, data) == [i \in 1..Len(data) |-> CardElement(data[i], old)]

\* pass 1: left and the base top of the band for every card of the join
BaselineLayout(elems, drawnHeight, boxWidth, den) ==
  [i \in 1..Len(elems) |->
     [elems[i] EXCEPT
        !.left = CardLeft(elems[i].cx, boxWidth, den),
        !.top = PushDen * (IF elems[i].band = "top" THEN TopBase(drawnHeight)
                           ELSE BottomBase(drawnHeight))]]

InBand(elems, band) ==
  KeepIdx(elems, { i \in 1..Len(elems) : elems[i].band = band })

\* pass 2: resolveBandVerticalLayout on the top cards, then on the bottom cards
ResolveBands(elems, drawnHeight, containerH, den) ==
  LET topNodes == ResolveBandVerticalLayout(InBand(elems, "top"),
                    TopBase(drawnHeight), "up", containerH, den)
      bottomNodes == ResolveBandVerticalLayout(InBand(elems, "bottom"),
                       BottomBase(drawnHeight), "down", containerH, den)
      placed == topNodes \o bottomNodes
  IN [i \in 1..Len(elems) |->
        IF \E j \in 1..Len(placed) : placed[j].title = elems[i].title
        THEN placed[CHOOSE j \in 1..Len(placed) : placed[j].title = elems[i].title]
        ELSE elems[i]]

\* renderMultiTooltips(highlightTitles, anchorTitle) in the closure of the
\* drawing (ms, arcs, drawnSz, den), with the overlay holding old and the
\* container measuring containerBox
RenderMultiTooltips(hoverTitle, old, ms, arcs, drawnSz, containerBox, den) ==
  LET items == SortByX(TooltipItems(HighlightTitles(hoverTitle, arcs), ms, drawnSz.width))
      merged == JoinCards(old, CardData(items, hoverTitle))
  IN ResolveBands(BaselineLayout(merged, drawnSz.height, containerBox.width, den),
                  drawnSz.height, containerBox.height, den)

\* applyHighlight: the dots after dimming all and raising the highlighted ones
HighlightDots(hoverTitle, ms, arcs) ==
  LET hl == SeqRange(HighlightTitles(hoverTitle, arcs))
  IN [i \in 1..Len(ms) |->
        [opacity |-> IF ms[i].title \in hl THEN FullOpacity ELSE 18,
         r |-> IF ms[i].title = hoverTitle THEN DotR + 3
               ELSE IF ms[i].title \in hl THEN DotR + 1 ELSE DotR,
         strokeW |-> IF ms[i].title = hoverTitle THEN DotStrokeW + 12
                     ELSE DotStrokeW]]

\* applyHighlight: the arcs after dimming all and raising the outgoing ones
HighlightArcs(hoverTitle, arcs) ==
  [i \in 1..Len(arcs) |->
     IF arcs[i].from = hoverTitle
     THEN [opacity |-> Min(100, BaseArcOpacity(arcs[i]) + 15),
           strokeW |-> BaseArcStrokeW(arcs[i]) + 12]
     ELSE [opacity |-> 10, strokeW |-> BaseArcStrokeW(arcs[i])]]

\* the container box changes; the observer's callback is still waiting in
\* the 50 ms debounce, so the size state is not touched yet.  A pointer
\* cannot rest on a dot of an svg without area.
BoxChange(s) ==
  /\ s # box
  /\ hovered = NoHover \/ Positive(s)
  /\ box' = s
  /\ UNCHANGED << loadState, debounced, phaseRanges, movies, size, filterMode, arcsWithLane, pxDen,
                  drawnSize, overlays, hasCleanup, hovered, mcuLabels, staleCards,
                  dotStyle, arcLook, tlVars, plVars, rtVars, restVars >>

\* mouseenter on the dot of title t: applyHighlight(t), run by the handler the
\* drawing bound to the dot
MouseEnter(t) ==
  /\ Positive(drawnSize)
  /\ Positive(box)
  /\ hovered = NoHover
  /\ HasTitle(movies, t)
  /\ hovered' = t
  /\ staleCards' = mcuLabels
  /\ mcuLabels' = RenderMultiTooltips(t, mcuLabels, movies, arcsWithLane,
                                      drawnSize, box, pxDen)
  /\ dotStyle' = HighlightDots(t, movies, arcsWithLane)
  /\ arcLook' = HighlightArcs(t, arcsWithLane)
  /\ UNCHANGED << loadState, phaseRanges, movies, size, filterMode, arcsWithLane, pxDen,
                  box, debounced, drawnSize, overlays, hasCleanup, tlVars, plVars, rtVars, restVars >>

\* mouseleave on the hovered dot: clearHighlight()
MouseLeave ==
  /\ hovered # NoHover
  /\ hovered' = NoHover
  /\ mcuLabels' = <<>>
  /\ staleCards' = <<>>
  /\ dotStyle' = [i \in 1..Len(dotStyle) |-> BaseDot]
  /\ arcLook' = [i \in 1..Len(arcsWithLane) |-> BaseArc(arcsWithLane[i])]
  /\ UNCHANGED << loadState, phaseRanges, movies, size, filterMode, arcsWithLane, pxDen,
                  box, debounced, drawnSize, overlays, hasCleanup, tlVars, plVars, rtVars, restVars >>

\* the catalogs of the hover runs: The Avengers first, the others after it,
\* on the same day or later, or without a row
HoverDatasets ==
  { ds \in Datasets : /\ ds[1] = 0
                      /\ ds[2] \in {NoRow, 1}
                      /\ ds[3] = 1
                      /\ ds[4] \in {NoRow, 2, 3} }

HoverNext ==
  \/ \E ds \in HoverDatasets : Load(ds)
  \/ \E s \in Sizes : Resize(s)
  \/ \E s \in Sizes : BoxChange(s)
  \/ \E m \in FilterModes : SetFilterMode(m)
  \/ \E i \in 1..Len(CsvTitles) : MouseEnter(CsvTitles[i])
  \/ MouseLeave


(* ------------------------ McuRatingsLineChart -------------------------- *)
\* null
NoYear == -1
\* Number(release_date.split("-")[0]) of the rows of the file: a row of the
\* model carries the text before the first "-" of its release_date
YearTexts == {"", "2012", "2013", "2015"}
ParseYear(text) ==
  CASE text = "" -> 0
    [] text = "2012" -> 2012
    [] text = "2013" -> 2013
    [] text = "2015" -> 2015
    [] text = "2019" -> 2019
RatingsRows == 3
RatingsDatasets == [1..RatingsRows -> YearTexts]
RatingsSizes == { [width |-> 0, height |-> 0], [width |-> 600, height |-> 500] }
\* pageX of the pointer events
PointerXs == {100, 200}

\* [...new Set(movies.map(m => m.releaseYear))].sort((a, b) => a - b)
RECURSIVE SortedYears(_)
SortedYears(ys) ==
  IF ys = {} THEN <<>>
  ELSE LET m == CHOOSE y \in ys : \A z \in ys : y <= z
       IN << m >> \o SortedYears(ys \ {m})
Years(ms) == SortedYears({ ms[i] : i \in 1..Len(ms) })

\* the draw effect of the ratings chart: nothing while movies is empty or a
\* side of the size is 0; otherwise the svg is emptied and generateLineChart
\* draws one base-size circle per year, with handlers that close over the
\* selectedReviewsYear of the render that ran the effect
RtDrawEffect(ms, sz) ==
  IF Len(ms) = 0 \/ sz.width = 0 \/ sz.height = 0
  THEN UNCHANGED << closureYear, rtPoints, rtTooltips, rtBig, rtHover >>
  ELSE /\ rtTooltips' = AppendOne(rtTooltips)
       /\ rtPoints' = Years(ms)
       /\ rtBig' = {}
       /\ rtHover' = NoYear
       /\ closureYear' = selectedReviewsYear

RtInit ==
  /\ rtLoadState = "pending"
  /\ rtMovies = <<>>
  /\ rtSize = [width |-> 0, height |-> 0]
  /\ rtDebounced = Idle
  /\ selectedReviewsYear = NoYear
  /\ closureYear = NoYear
  /\ rtPoints = <<>>
  /\ rtTooltips = 0
  /\ rtBig = {}
  /\ rtHover = NoYear
  /\ rtTooltip = [visible |-> FALSE, at |-> 0]

\* d3.csv resolves: setMovies(moviesData), whether mounted or not, and the
\* draw effect when the component is there to run it
RtLoad(ds) ==
  /\ rtLoadState = "pending"
  /\ rtLoadState' = "done"
  /\ rtMovies' = [i \in 1..RatingsRows |-> ParseYear(ds[i])]
  /\ IF mounted
     THEN RtDrawEffect(rtMovies', rtSize)
     ELSE UNCHANGED << closureYear, rtPoints, rtTooltips, rtBig, rtHover >>
  /\ UNCHANGED << rtSize, rtDebounced, selectedReviewsYear, rtTooltip, connVars, tlVars, plVars, restVars >>

\* d3.csv or the row loop rejects: loadData() has no handler on its promise
RtLoadFail ==
  /\ rtLoadState = "pending"
  /\ rtLoadState' = "failed"
  /\ unhandled' = unhandled \cup { "McuRatingsLineChart" }
  /\ UNCHANGED << rtMovies, rtSize, rtDebounced, selectedReviewsYear, closureYear, rtPoints, rtTooltips,
                  rtBig, rtHover, rtTooltip, mounted, thrown, connVars, tlVars,
                  plVars, dpVars, rvVars, rwVars >>

\* the debounced onResize fires: setSize(s), then the draw effect
RtResize(s) ==
  /\ mounted
  /\ rtSize' = s
  /\ RtDrawEffect(rtMovies, s)
  /\ UNCHANGED << rtLoadState, rtMovies, rtDebounced, selectedReviewsYear, rtTooltip,
                  connVars, tlVars, plVars, restVars >>

\* the resize observer of the ratings chart notifies the content box s
RtNotify(s) ==
  /\ mounted
  /\ rtDebounced' = DebounceCall(rtDebounced, s)
  /\ UNCHANGED << rtLoadState, rtMovies, rtSize, selectedReviewsYear, closureYear,
                  rtPoints, rtTooltips, rtBig, rtHover, rtTooltip, connVars, tlVars,
                  plVars, restVars >>

\* 200 ms pass with no further notification: setSize(lastArgs), then the
\* draw effect
RtDelayElapses ==
  /\ mounted
  /\ rtDebounced.timer
  /\ rtDebounced' = DebounceExpire(rtDebounced)
  /\ rtSize' = rtDebounced.lastArgs
  /\ RtDrawEffect(rtMovies, rtSize')
  /\ UNCHANGED << rtLoadState, rtMovies, selectedReviewsYear, rtTooltip,
                  connVars, tlVars, plVars, restVars >>

IsPoint(y) == \E i \in 1..Len(rtPoints) : rtPoints[i] = y

\* mouseover on the circle of year y
RtMouseOver(y, px) ==
  /\ IsPoint(y)
  /\ rtHover = NoYear
  /\ rtHover' = y
  /\ rtBig' = rtBig \cup {y}
  /\ rtTooltip' = [visible |-> TRUE, at |-> px + 10]
  /\ UNCHANGED << rtLoadState, rtMovies, rtSize, rtDebounced, selectedReviewsYear, closureYear,
                  rtPoints, rtTooltips, connVars, tlVars, plVars, restVars >>

\* mousemove on the hovered circle
RtMouseMove(px) ==
  /\ rtHover # NoYear
  /\ rtTooltip' = [rtTooltip EXCEPT !.at = px + 10]
  /\ UNCHANGED << rtLoadState, rtMovies, rtSize, rtDebounced, selectedReviewsYear, closureYear,
                  rtPoints, rtTooltips, rtBig, rtHover, connVars, tlVars, plVars, restVars >>

\* mouseout that also drops the selection
RtMouseOutUnpin ==
  /\ rtHover # NoYear
  /\ rtHover' = NoYear
  /\ rtBig' = rtBig \ {rtHover}
  /\ rtTooltip' = [rtTooltip EXCEPT !.visible = FALSE]
  /\ selectedReviewsYear' = NoYear
  /\ closureYear' = NoYear
  /\ UNCHANGED << rtLoadState, rtMovies, rtSize, rtDebounced, rtPoints, rtTooltips, connVars, tlVars, plVars, restVars >>

\* mouseout of the hovered circle: back to the base size unless it is the
\* pinned year; the tooltip is hidden
RtMouseOut ==
  /\ rtHover # NoYear
  /\ rtHover' = NoYear
  /\ rtBig' = IF rtHover # closureYear THEN rtBig \ {rtHover} ELSE rtBig
  /\ rtTooltip' = [rtTooltip EXCEPT !.visible = FALSE]
  /\ UNCHANGED << rtLoadState, rtMovies, rtSize, rtDebounced, selectedReviewsYear, closureYear,
                  rtPoints, rtTooltips, connVars, tlVars, plVars, restVars >>

\* McuMoviesReviews gets the pinned year as a prop: its filter effect runs
\* again when the year changes
ReviewsCap == 8
\* reviews.filter(r => r.movie == title), at most the first ReviewsCap
RECURSIVE ReviewsOf(_, _)
ReviewsOf(title, rs) ==
  IF Len(rs) = 0 THEN <<>>
  ELSE LET rest == ReviewsOf(title, Front(rs))
       IN IF Last(rs) = title /\ Len(rest) < ReviewsCap
          THEN Append(rest, Last(rs)) ELSE rest

\* the filter effect: the reviews of the movies of the pinned year
RECURSIVE FilteredReviews(_, _, _)
FilteredReviews(ms, rs, year) ==
  IF year = NoYear \/ Len(ms) = 0 THEN <<>>
  ELSE LET rest == FilteredReviews(Front(ms), rs, year)
       IN IF Last(ms).releaseYear = year
          THEN rest \o ReviewsOf(Last(ms).title, rs)
          ELSE rest

\* a click that pins the year without looking at the selection
RtClickAlwaysPin ==
  /\ rtHover # NoYear
  /\ closureYear' = rtHover
  /\ selectedReviewsYear' = rtHover
  /\ rtBig' = rtBig \ {closureYear}
  /\ filteredReviews' = FilteredReviews(rwMovies, rwReviews, selectedReviewsYear')
  /\ UNCHANGED << rtLoadState, rtMovies, rtSize, rtDebounced, rtPoints, rtTooltips, rtHover, rtTooltip,
                  connVars, tlVars, plVars, appVars, dpVars, rvVars,
                  rwLoadState, rwMovies, rwReviews >>

\* a click that calls setReviewsYear and leaves its own binding alone
RtClickStateOnly ==
  /\ rtHover # NoYear
  /\ IF closureYear = rtHover
     THEN /\ selectedReviewsYear' = NoYear
          /\ rtBig' = rtBig \ {rtHover}
     ELSE /\ rtBig' = IF closureYear # NoYear THEN rtBig \ {closureYear} ELSE rtBig
          /\ selectedReviewsYear' = rtHover
  /\ filteredReviews' = FilteredReviews(rwMovies, rwReviews, selectedReviewsYear')
  /\ UNCHANGED << rtLoadState, rtMovies, rtSize, rtDebounced, rtPoints, rtTooltips, rtHover, rtTooltip,
                  closureYear, connVars, tlVars, plVars, appVars, dpVars, rvVars,
                  rwLoadState, rwMovies, rwReviews >>

\* click on the hovered circle
RtClick ==
  /\ rtHover # NoYear
  /\ IF closureYear = rtHover
     THEN /\ closureYear' = NoYear
          /\ selectedReviewsYear' = NoYear
          /\ rtBig' = rtBig \ {rtHover}
     ELSE /\ rtBig' = IF closureYear # NoYear THEN rtBig \ {closureYear} ELSE rtBig
          /\ closureYear' = rtHover
          /\ selectedReviewsYear' = rtHover
  /\ filteredReviews' = FilteredReviews(rwMovies, rwReviews, selectedReviewsYear')
  /\ UNCHANGED << rtLoadState, rtMovies, rtSize, rtDebounced, rtPoints, rtTooltips, rtHover, rtTooltip,
                  connVars, tlVars, plVars, appVars, dpVars, rvVars,
                  rwLoadState, rwMovies, rwReviews >>

RatingsNext ==
  \/ \E ds \in RatingsDatasets : RtLoad(ds)
  \/ \E s \in RatingsSizes : RtResize(s)
  \/ \E y \in {0, 2012, 2013, 2015} : \E px \in PointerXs : RtMouseOver(y, px)
  \/ \E px \in PointerXs : RtMouseMove(px)
  \/ RtMouseOut
  \/ RtClick


(* ----------------------------- App lifecycle --------------------------- *)
AppInit ==
  /\ mounted = TRUE
  /\ unhandled = {}
  /\ thrown = {}

(* ------------------------ McuYearDotPlot (dot plot) -------------------- *)
\* the years parseYear gets out of the release dates of a file
DpYearLists == { <<>>, << 2008 >>, << 2008, 2010 >>, << 2010, 2010 >>,
                 << 2008, 2013 >> }
DpSizes == { [width |-> 0, height |-> 0], [width |-> 100, height |-> 300],
             [width |-> 200, height |-> 300], [width |-> 900, height |-> 300] }
NoDomain == << >>

SeqMin(ys, none) == IF Len(ys) = 0 THEN none
                    ELSE CHOOSE y \in SeqRange(ys) : \A z \in SeqRange(ys) : y <= z
SeqMax(ys, none) == IF Len(ys) = 0 THEN none
                    ELSE CHOOSE y \in SeqRange(ys) : \A z \in SeqRange(ys) : y >= z
\* d3.rollup(years, v => v.length, y => y).get(y) ?? 0
CountOf(ys, y) == Cardinality({ i \in 1..Len(ys) : ys[i] = y })

MinYear(movieYears, showYears) ==
  Min(SeqMin(movieYears, 9999), SeqMin(showYears, 9999))
MaxYear(movieYears, showYears) ==
  Max(SeqMax(movieYears, 0), SeqMax(showYears, 0))
\* one bin per year from minYear to maxYear
YearBins(movieYears, showYears) ==
  IF Len(movieYears) = 0 /\ Len(showYears) = 0 THEN <<>>
  ELSE LET lo == MinYear(movieYears, showYears)
           hi == MaxYear(movieYears, showYears)
       IN [k \in 1..(hi - lo + 1) |->
             [year |-> lo + k - 1,
              movies |-> CountOf(movieYears, lo + k - 1),
              shows |-> CountOf(showYears, lo + k - 1),
              total |-> CountOf(movieYears, lo + k - 1)
                          + CountOf(showYears, lo + k - 1)]]
YearDomainOf(movieYears, showYears) ==
  IF Len(movieYears) = 0 /\ Len(showYears) = 0 THEN NoDomain
  ELSE [minYear |-> MinYear(movieYears, showYears),
        maxYear |-> MaxYear(movieYears, showYears)]

\* margin.left, margin.right and the room of one year label
DpMarginLeft == 24
DpMarginRight == 24
LabelRoom == 60
CeilDiv(a, b) == (a + b - 1) \div b
\* Math.max(1, Math.ceil((maxYear - minYear + 1) / Math.max(1, approxLabelCount)))
YearStep(minYear, maxYear, width) ==
  LET approxLabelCount == ((width - DpMarginRight) - DpMarginLeft) \div LabelRoom
  IN Max(1, CeilDiv(maxYear - minYear + 1, Max(1, approxLabelCount)))
\* for (let y = minYear; y <= maxYear; y += yearStep) list.push(y)
RECURSIVE PushSteps(_, _, _, _)
PushSteps(list, y, maxYear, yearStep) ==
  IF y <= maxYear
  THEN PushSteps(Append(list, y), y + yearStep, maxYear, yearStep)
  ELSE list
\* tickYears: d3.range(minYear, maxYear + 1), then the pushes of the loop,
\* then maxYear unless it is the last element
TickYears(bs, width) ==
  LET minYear == bs[1].year
      maxYear == bs[Len(bs)].year
      range == [k \in 1..(maxYear - minYear + 1) |-> minYear + k - 1]
      pushed == PushSteps(range, minYear, maxYear,
                          YearStep(minYear, maxYear, width))
  IN IF Last(pushed) # maxYear THEN Append(pushed, maxYear) ELSE pushed

\* the draw effect of the dot plot
DpDrawEffect(bs, dom, sz) ==
  IF sz.width <= 0 \/ sz.height <= 0 \/ Len(bs) = 0 \/ dom = NoDomain
  THEN UNCHANGED << dpDots, tickYears >>
  ELSE /\ dpDots' = bs
       /\ tickYears' = TickYears(bs, sz.width)

DpInit ==
  /\ dpLoadState = "pending"
  /\ bins = <<>>
  /\ yearDomain = NoDomain
  /\ dpSize = [width |-> 0, height |-> 0]
  /\ dpDots = <<>>
  /\ tickYears = <<>>

\* both d3.csv calls resolve: setBins, setYearDomain unless cancelled
DpLoad(movieYears, showYears) ==
  /\ dpLoadState = "pending"
  /\ dpLoadState' = "done"
  /\ IF cancelled
     THEN UNCHANGED << bins, yearDomain, dpDots, tickYears >>
     ELSE /\ bins' = YearBins(movieYears, showYears)
          /\ yearDomain' = YearDomainOf(movieYears, showYears)
          /\ DpDrawEffect(bins', yearDomain', dpSize)
  /\ UNCHANGED << dpSize, appVars, connVars, tlVars, plVars, rtVars, rvVars, rwVars >>

\* a d3.csv call or the parsing rejects: the catch on load()
DpLoadFail ==
  /\ dpLoadState = "pending"
  /\ dpLoadState' = "failed"
  /\ IF cancelled
     THEN UNCHANGED << bins, yearDomain, dpDots, tickYears >>
     ELSE /\ bins' = <<>>
          /\ yearDomain' = NoDomain
          /\ DpDrawEffect(bins', yearDomain', dpSize)
  /\ UNCHANGED << dpSize, appVars, connVars, tlVars, plVars, rtVars, rvVars, rwVars >>

DpResize(s) ==
  /\ mounted
  /\ dpSize' = s
  /\ DpDrawEffect(bins, yearDomain, s)
  /\ UNCHANGED << dpLoadState, bins, yearDomain, appVars, connVars, tlVars,
                  plVars, rtVars, rvVars, rwVars >>

(* ----------------------- RevenueBarChart (revenue) --------------------- *)
\* the first field of release_date in the rows of top10_movies_2008_2025.csv
RvYearTexts == { "", "2012", "2019" }
RevenueRows == 3
RvDatasets == UNION { [1..n -> RvYearTexts] : n \in 0..RevenueRows }
RvSizes == { [width |-> 0, height |-> 0], [width |-> 800, height |-> 400] }
AnnotatedYear == 2019

\* [...new Set(movies.map(m => m.releaseYear))]: first occurrences, in order
RECURSIVE UniqueYears(_)
UniqueYears(ms) ==
  IF Len(ms) = 0 THEN <<>>
  ELSE LET rest == UniqueYears(Front(ms))
       IN IF Last(ms) \in SeqRange(rest) THEN rest ELSE Append(rest, Last(ms))

\* the draw effect of the revenue chart: generateBarChart appends the bars,
\* then reads .year of the first row of 2019, which is undefined when the
\* data has no such row
RvDrawEffect(ms, sz) ==
  IF Len(ms) = 0 \/ sz.width = 0 \/ sz.height = 0
  THEN UNCHANGED << rvBars, rvTooltips, rvAnnotated, thrown >>
  ELSE /\ rvTooltips' = AppendOne(rvTooltips)
       /\ rvBars' = UniqueYears(ms)
       /\ IF AnnotatedYear \in SeqRange(rvBars')
          THEN /\ rvAnnotated' = TRUE
               /\ UNCHANGED thrown
          ELSE /\ rvAnnotated' = FALSE
               /\ thrown' = thrown \cup { "RevenueBarChart" }

RvInit ==
  /\ rvLoadState = "pending"
  /\ rvMovies = <<>>
  /\ rvSize = [width |-> 0, height |-> 0]
  /\ rvBars = <<>>
  /\ rvTooltips = 0
  /\ rvAnnotated = FALSE

\* d3.csv resolves: setMovies(moviesData), whether mounted or not, and the
\* draw effect when the component is there to run it
RvLoad(ds) ==
  /\ rvLoadState = "pending"
  /\ rvLoadState' = "done"
  /\ rvMovies' = [i \in 1..Len(ds) |-> ParseYear(ds[i])]
  /\ IF mounted
     THEN RvDrawEffect(rvMovies', rvSize)
     ELSE UNCHANGED << rvBars, rvTooltips, rvAnnotated, thrown >>
  /\ UNCHANGED << rvSize, mounted, unhandled, connVars, tlVars, plVars, rtVars,
                  dpVars, rwVars >>

\* d3.csv or the row loop rejects: loadData() has no handler on its promise
RvLoadFail ==
  /\ rvLoadState = "pending"
  /\ rvLoadState' = "failed"
  /\ unhandled' = unhandled \cup { "RevenueBarChart" }
  /\ UNCHANGED << rvMovies, rvSize, rvBars, rvTooltips, rvAnnotated, mounted, thrown,
                  connVars, tlVars, plVars, rtVars, dpVars, rwVars >>

RvResize(s) ==
  /\ mounted
  /\ rvSize' = s
  /\ RvDrawEffect(rvMovies, s)
  /\ UNCHANGED << rvLoadState, rvMovies, mounted, unhandled, connVars, tlVars,
                  plVars, rtVars, dpVars, rwVars >>

(* ------------------------ McuMoviesReviews (reviews) ------------------- *)
RwMovieLists ==
  { <<>>,
    << [title |-> "The Avengers", releaseYear |-> 2012] >>,
    << [title |-> "The Avengers", releaseYear |-> 2012],
       [title |-> "Thor: The Dark World", releaseYear |-> 2013] >> }
RwReviewLists ==
  { <<>>,
    << "The Avengers" >>,
    << "Thor: The Dark World", "The Avengers", "The Avengers" >> }

RwInit ==
  /\ rwLoadState = "pending"
  /\ rwMovies = <<>>
  /\ rwReviews = <<>>
  /\ filteredReviews = <<>>

\* both d3.csv calls resolve: setMovies, setReviews, whether mounted or not,
\* and the filter effect when the component is there to run it
RwLoad(ms, rs) ==
  /\ rwLoadState = "pending"
  /\ rwLoadState' = "done"
  /\ rwMovies' = ms
  /\ rwReviews' = rs
  /\ filteredReviews' = IF mounted
                        THEN FilteredReviews(ms, rs, selectedReviewsYear)
                        ELSE filteredReviews
  /\ UNCHANGED << appVars, connVars, tlVars, plVars, rtVars, dpVars, rvVars >>

\* a d3.csv call or a row loop rejects: loadData() has no handler
RwLoadFail ==
  /\ rwLoadState = "pending"
  /\ rwLoadState' = "failed"
  /\ unhandled' = unhandled \cup { "McuMoviesReviews" }
  /\ UNCHANGED << rwMovies, rwReviews, filteredReviews, mounted, thrown,
                  connVars, tlVars, plVars, rtVars, dpVars, rvVars >>

RestInit == AppInit /\ DpInit /\ RvInit /\ RwInit


Init == ConnInit /\ TlInit /\ PlInit /\ RtInit /\ RestInit

Next ==
  \/ \E ds \in Datasets : Load(ds)
  \/ \E s \in Sizes : Resize(s)
  \/ \E m \in FilterModes : SetFilterMode(m)

Spec == Init /\ [][Next]_vars

TimelineInit == ConnInit /\ TlInit /\ PlInit /\ RtInit /\ RestInit

TimelineNext ==
  \/ \E ds \in TimelineDatasets : TlLoad(ds)
  \/ \E s \in TimelineSizes : TlResize(s)

SpecTimeline == TimelineInit /\ [][TimelineNext]_vars

PlacerInit == ConnInit /\ TlInit /\ PlInit /\ RtInit /\ RestInit

PlacerNext ==
  \/ \E band \in {"top", "bottom"} : \E cards \in SortedCardLists :
       LayoutPass(band, cards)
  \/ PlClear
  \/ \E s \in PlacerSizes : PlResize(s)

SpecPlacer == PlacerInit /\ [][PlacerNext]_vars

HoverInit == ConnInit /\ TlInit /\ PlInit /\ RtInit /\ RestInit

SpecHover == HoverInit /\ [][HoverNext]_vars

RatingsInit == ConnInit /\ TlInit /\ PlInit /\ RtInit /\ RestInit

SpecRatings == RatingsInit /\ [][RatingsNext]_vars

\* App is unmounted: the cleanups of the effects run (cancelled = true in
\* the load effects that have the flag, the cards of the connections view)
AppUnmount ==
  /\ mounted
  /\ mounted' = FALSE
  /\ mcuLabels' = IF hasCleanup THEN <<>> ELSE mcuLabels
  /\ UNCHANGED << loadState, phaseRanges, movies, size, filterMode, arcsWithLane, pxDen,
                  box, debounced, drawnSize, overlays, hasCleanup, hovered, staleCards, dotStyle,
                  arcLook, unhandled, thrown, tlVars, plVars, rtVars, dpVars,
                  rvVars, rwVars >>

\* the files the loads of the six charts are checked with together
LcDatasets == { ds \in Datasets : ds[1] = 0 /\ ds[2] = NoRow /\ ds[3] = 1 /\ ds[4] = NoRow }
LcTimelineDatasets ==
  { ds \in TimelineDatasets : ds[1] = 0 /\ ds[3] = 1 /\ ds[2] = NoRow
                              /\ ds[4] = NoRow /\ ds[5] = NoRow }
LcRatingsDatasets == { ds \in RatingsDatasets : \A i \in 1..RatingsRows : ds[i] = "2012" }
LcRevenueDatasets == { << "2019" >> }
LcSize == [width |-> 1140, height |-> 400]

LifecycleInit == ConnInit /\ TlInit /\ PlInit /\ RtInit /\ RestInit

LifecycleNext ==
  \/ AppUnmount
  \/ \E ds \in LcDatasets : Load(ds)
  \/ LoadFail
  \/ \E ds \in LcTimelineDatasets : TlLoad(ds)
  \/ TlLoadFail
  \/ DpLoad(<< 2008, 2010 >>, << 2010, 2010 >>)
  \/ DpLoadFail
  \/ \E ds \in LcRevenueDatasets : RvLoad(ds)
  \/ RvLoadFail
  \/ \E ds \in LcRatingsDatasets : RtLoad(ds)
  \/ RtLoadFail
  \/ \E ms \in RwMovieLists \ { <<>> } : RwLoad(ms, << "The Avengers" >>)
  \/ RwLoadFail
  \/ Resize(LcSize)
  \/ TlResize(LcSize)
  \/ DpResize([width |-> 900, height |-> 300])
  \/ RvResize([width |-> 800, height |-> 400])
  \/ RtResize([width |-> 600, height |-> 500])

SpecLifecycle == LifecycleInit /\ [][LifecycleNext]_vars

RevenueInit == ConnInit /\ TlInit /\ PlInit /\ RtInit /\ RestInit

RevenueNext ==
  \/ \E ds \in RvDatasets : RvLoad(ds)
  \/ RvLoadFail
  \/ \E s \in RvSizes : RvResize(s)

SpecRevenue == RevenueInit /\ [][RevenueNext]_vars

\* the files the guards of the two draw effects are checked with: each has
\* two of the titles or neither, so that the catalog can be empty
GuardDatasets ==
  { ds \in Datasets : ds[1] \in {NoRow, 0} /\ ds[2] = NoRow
                      /\ ds[3] \in {NoRow, 1} /\ ds[4] = NoRow }
GuardTimelineDatasets ==
  { ds \in TimelineDatasets : ds[1] \in {NoRow, 0} /\ ds[2] = NoRow
                              /\ ds[3] \in {NoRow, 1} /\ ds[4] = NoRow
                              /\ ds[5] = NoRow }

GuardsInit == ConnInit /\ TlInit /\ PlInit /\ RtInit /\ RestInit

GuardsNext ==
  \/ \E ds \in GuardDatasets : Load(ds)
  \/ LoadFail
  \/ \E s \in Sizes : Resize(s)
  \/ \E m \in FilterModes : SetFilterMode(m)
  \/ \E ds \in GuardTimelineDatasets : TlLoad(ds)
  \/ TlLoadFail
  \/ \E s \in TimelineSizes : TlResize(s)

SpecGuards == GuardsInit /\ [][GuardsNext]_vars

\* the load of the connections view over the dates and phases of the rows
PhasesInit == ConnInit /\ TlInit /\ PlInit /\ RtInit /\ RestInit

PhasesNext ==
  \/ \E ds \in PhaseDatasets : \E ph \in PhaseAssignments : LoadRows(ds, ph)
  \/ LoadFail

SpecPhases == PhasesInit /\ [][PhasesNext]_vars

DotPlotInit == ConnInit /\ TlInit /\ PlInit /\ RtInit /\ RestInit

DotPlotNext ==
  \/ \E movieYears \in DpYearLists : \E showYears \in DpYearLists :
       DpLoad(movieYears, showYears)
  \/ DpLoadFail
  \/ \E s \in DpSizes : DpResize(s)

SpecDotPlot == DotPlotInit /\ [][DotPlotNext]_vars

\* the ratings chart and the reviews list under one App
PinnedRatingsDatasets ==
  { ds \in RatingsDatasets :
      ds[1] = "2012" /\ \A i \in 2..RatingsRows : ds[i] = "2013" }

PinnedInit == ConnInit /\ TlInit /\ PlInit /\ RtInit /\ RestInit

PinnedNext ==
  \/ \E ds \in PinnedRatingsDatasets : RtLoad(ds)
  \/ \E s \in RatingsSizes : RtResize(s)
  \/ \E y \in {2012, 2013} : \E px \in PointerXs : RtMouseOver(y, px)
  \/ \E px \in PointerXs : RtMouseMove(px)
  \/ RtMouseOut
  \/ RtClick
  \/ \E ms \in RwMovieLists : \E rs \in RwReviewLists : RwLoad(ms, rs)

SpecPinned == PinnedInit /\ [][PinnedNext]_vars

\* bursts of resize notifications on the connections chart and on the
\* ratings chart, with loads and filter changes in between
DebounceInit == ConnInit /\ TlInit /\ PlInit /\ RtInit /\ RestInit

DebounceNext ==
  \/ \E ds \in LcDatasets : Load(ds)
  \/ \E s \in Sizes : Notify(s)
  \/ DelayElapses
  \/ \E m \in FilterModes : SetFilterMode(m)
  \/ \E ds \in LcRatingsDatasets : RtLoad(ds)
  \/ \E s \in RatingsSizes : RtNotify(s)
  \/ RtDelayElapses

SpecDebounce == DebounceInit /\ [][DebounceNext]_vars

(* ----------------------- claims: McuConnections ------------------------ *)
\* the drawing on screen was made from the current movies, size and filter
Drawn == size.width > 0 /\ size.height > 0 /\ Len(movies) > 0

ArcIdx == 1..Len(arcsWithLane)
SameSide(i, j) == arcsWithLane[i].side = arcsWithLane[j].side
\* the spans of arcs i and j, closed intervals, are more than the gap apart
Apart(i, j) ==
  \/ arcsWithLane[i].rightX + LaneGap * pxDen < arcsWithLane[j].leftX
  \/ arcsWithLane[j].rightX + LaneGap * pxDen < arcsWithLane[i].leftX

\* C1: two distinct arcs of one side that share a lane have spans that do
\* not overlap, even when expanded by the 8 px gap.
C1_NoOverlapInLane ==
  \A i, j \in ArcIdx :
    (i # j /\ SameSide(i, j) /\ arcsWithLane[i].lane = arcsWithLane[j].lane)
      => Apart(i, j)

\* two arcs of one side share a lane
C1_Witness ==
  \E i, j \in ArcIdx :
    i # j /\ SameSide(i, j) /\ arcsWithLane[i].lane = arcsWithLane[j].lane

\* C2: every arc gets the smallest lane free of overlap: each lane below the
\* assigned one holds an arc of the same side, placed earlier, whose span
\* (gap included) overlaps the arc's.
C2_SmallestLane ==
  \A i \in ArcIdx :
    \A l \in 0..(arcsWithLane[i].lane - 1) :
      \E j \in 1..(i - 1) :
        /\ SameSide(i, j)
        /\ arcsWithLane[j].lane = l
        /\ ~Apart(i, j)

\* an arc skips lane 0 and takes lane 1 although lane 2 is already open
C2_Witness ==
  \E i \in ArcIdx : \E j \in 1..(i - 1) :
    /\ SameSide(i, j)
    /\ arcsWithLane[i].lane = 1
    /\ arcsWithLane[j].lane = 2

\* the lanes opened on arc i's side before arc i is placed
OpenLanes(i) ==
  {arcsWithLane[j].lane : j \in {k \in 1..(i - 1) : SameSide(i, k)}}
\* the right edge of lane l when arc i is placed: the rightX of the last arc
\* put there
LaneRightEnd(i, l) ==
  LET js == {j \in 1..(i - 1) : SameSide(i, j) /\ arcsWithLane[j].lane = l}
  IN arcsWithLane[CHOOSE j \in js : \A k \in js : k <= j].rightX
\* first fit: the lowest open lane that satisfies fits, or else a new lane
FirstFit(i, fits) ==
  IF fits = {} THEN Cardinality(OpenLanes(i))
  ELSE CHOOSE l \in fits : \A m \in fits : l <= m

\* C3 as stated: the arc takes the first lane whose right edge is
\* <= leftX - gap (so a lane ending exactly 8 px before the arc is reused).
C3_FirstLaneAtMostGap ==
  \A i \in ArcIdx :
    arcsWithLane[i].lane =
      FirstFit(i, {l \in OpenLanes(i) :
          LaneRightEnd(i, l) <= arcsWithLane[i].leftX - LaneGap * pxDen})

\* C3 amended: the arc takes the first lane whose right edge is strictly
\* below leftX - gap; a new lane (the next index) is opened only when no
\* open lane is; open lanes are numbered 0, 1, ... without holes.
C3_FirstLaneBeyondGap ==
  \A i \in ArcIdx :
    /\ OpenLanes(i) = 0..(Cardinality(OpenLanes(i)) - 1)
    /\ arcsWithLane[i].lane =
         FirstFit(i, {l \in OpenLanes(i) :
             LaneRightEnd(i, l) < arcsWithLane[i].leftX - LaneGap * pxDen})

\* an arc starts exactly 8 px after the right edge of lane 0 and is put in
\* lane 1
C3_Witness ==
  \E i \in ArcIdx :
    /\ arcsWithLane[i].lane = 1
    /\ OpenLanes(i) = {0}
    /\ LaneRightEnd(i, 0) = arcsWithLane[i].leftX - LaneGap * pxDen

\* arc i is allocated before arc j in the order (ascending leftX, then
\* descending span, then position in CONNECTIONS)
KeyBefore(i, j) ==
  LET a == arcsWithLane[i]
      b == arcsWithLane[j]
  IN \/ a.leftX < b.leftX
     \/ a.leftX = b.leftX /\ a.span > b.span
     \/ a.leftX = b.leftX /\ a.span = b.span /\ a.idx < b.idx

\* C5: on each side the arcs are allocated in the total order (ascending
\* leftX, descending span, CONNECTIONS order), and the lanes on screen are
\* the ones that order gives for the current catalog, scale and filter,
\* whatever was drawn before.
C5_FixedAllocationOrder ==
  /\ \A i, j \in ArcIdx : (i < j /\ SameSide(i, j)) => KeyBefore(i, j)
  /\ Drawn => arcsWithLane = ArcsWithLane(movies, size.width, filterMode)

\* two arcs of one side tie on leftX and span, after a redraw
C5_Witness ==
  /\ Drawn
  /\ filterMode # "all"
  /\ \E i, j \in ArcIdx :
       /\ i < j /\ SameSide(i, j)
       /\ arcsWithLane[i].leftX = arcsWithLane[j].leftX
       /\ arcsWithLane[i].span = arcsWithLane[j].span

\* arc i runs from the earliest to the latest movie
FullWidth(i) ==
  /\ arcsWithLane[i].leftX
       = Min(ScaleX(MinDate(movies), movies, size.width),
             ScaleX(MaxDateOf(movies), movies, size.width))
  /\ arcsWithLane[i].rightX
       = Max(ScaleX(MinDate(movies), movies, size.width),
             ScaleX(MaxDateOf(movies), movies, size.width))

\* C6 as stated: an arc as wide as the whole axis range always has lane 0.
C6_FullWidthLaneZero ==
  Drawn => \A i \in ArcIdx : FullWidth(i) => arcsWithLane[i].lane = 0

\* C6 amended: the full-width arcs of a side take lanes 0, 1, 2, ... in
\* CONNECTIONS order: a full-width arc has lane 0 unless another full-width
\* arc of its side comes before it in CONNECTIONS.
C6_FullWidthLaneByRank ==
  Drawn =>
    \A i \in ArcIdx :
      FullWidth(i) =>
        arcsWithLane[i].lane =
          Cardinality({j \in ArcIdx :
              /\ SameSide(i, j) /\ FullWidth(j)
              /\ arcsWithLane[j].idx < arcsWithLane[i].idx})

\* a full-width arc shares its left edge with a shorter arc of its side that
\* comes earlier in CONNECTIONS, in a catalog with distinct first and last
\* dates
C6_Witness ==
  /\ Drawn
  /\ MinDate(movies) # MaxDateOf(movies)
  /\ \E i, j \in ArcIdx :
       /\ FullWidth(i) /\ SameSide(i, j) /\ ~FullWidth(j)
       /\ arcsWithLane[j].leftX = arcsWithLane[i].leftX
       /\ arcsWithLane[j].idx < arcsWithLane[i].idx
       /\ arcsWithLane[i].lane = 0

(* ------------------------- claims: McuTimeline ------------------------- *)
TlIdx == 1..Len(importantWithLanes)
TlLane(i, side) ==
  IF side = "top" THEN importantWithLanes[i].laneTop
  ELSE importantWithLanes[i].laneBottom
\* the horizontal extent of item i on a side: its width plus 10 px padding on
\* each side, centred on cx
ExtentLeft(i, side) ==
  importantWithLanes[i].cx
    - (GetHalfWidth(importantWithLanes[i], side) + XPad) * tlDen
ExtentRight(i, side) ==
  importantWithLanes[i].cx
    + (GetHalfWidth(importantWithLanes[i], side) + XPad) * tlDen
ExtentsOverlap(i, j, side) ==
  ~(\/ ExtentRight(i, side) < ExtentLeft(j, side)
    \/ ExtentRight(j, side) < ExtentLeft(i, side))
\* i, j, k carry their label on top and stand 40 px apart, in this order
ThreeLabels40Apart(i, j, k) ==
  /\ AnnoTop(importantWithLanes[i])
  /\ AnnoTop(importantWithLanes[j])
  /\ AnnoTop(importantWithLanes[k])
  /\ importantWithLanes[j].cx = importantWithLanes[i].cx + 40 * tlDen
  /\ importantWithLanes[k].cx = importantWithLanes[j].cx + 40 * tlDen

\* C4: on each side, two important movies whose padded extents overlap never
\* share a lane; three 80 px labels 40 px apart have their first two entries
\* in different lanes.
C4_OverlappingExtentsDifferentLanes ==
  /\ \A side \in {"top", "bottom"} : \A i, j \in TlIdx :
       (i # j /\ ExtentsOverlap(i, j, side)) => TlLane(i, side) # TlLane(j, side)
  /\ \A i, j, k \in TlIdx :
       ThreeLabels40Apart(i, j, k) => TlLane(i, "top") # TlLane(j, "top")

\* three labels 40 px apart are drawn on the top side, the first in lane 0,
\* the second in lane 1, and two movies further apart share a lane
C4_Witness ==
  /\ \E i, j, k \in TlIdx :
       /\ ThreeLabels40Apart(i, j, k)
       /\ TlLane(i, "top") = 0 /\ TlLane(j, "top") = 1
  /\ \E i, j \in TlIdx : i # j /\ TlLane(i, "bottom") = TlLane(j, "bottom")

(* --------------------- claims: the label placer ------------------------ *)
PassDone == plBand # "none"
PlBase == IF plBand = "top" THEN TopBase(plSize.height) ELSE BottomBase(plSize.height)
MinTopOf == ViewportPad * PushDen
MaxTopOf(n) == (plSize.height - n.h - ViewportPad) * PushDen
RECURSIVE SumPushes(_)
SumPushes(nodes) ==
  IF nodes = <<>> THEN 0 ELSE SumPushes(Front(nodes)) + Last(nodes).pushes
RECURSIVE SumHeights(_)
SumHeights(nodes) ==
  IF nodes = <<>> THEN 0 ELSE SumHeights(Front(nodes)) + Last(nodes).h + LabelGap

\* C7: the placer always returns: every card of the band comes back placed,
\* the retry loop of a card runs at most 60 times, so a card is pushed at most
\* 60 times and a band of n cards at most 60 * n times, whatever the sizes,
\* the anchors and the container height.
C7_PlacerBounded ==
  PassDone =>
    /\ Len(plNodes) >= 1
    /\ \A i \in 1..Len(plNodes) :
         /\ plNodes[i].iters \in 1..60
         /\ plNodes[i].pushes \in 0..plNodes[i].iters
    /\ SumPushes(plNodes) <= 60 * Len(plNodes)

\* a card held at the clamp bound that still overlaps an earlier card after
\* 60 pushes
C7_Witness ==
  /\ PassDone
  /\ \E i \in 2..Len(plNodes) :
       /\ plNodes[i].iters = 60
       /\ plNodes[i].pushes = 60
       /\ plNodes[i].top \in {MinTopOf, MaxTopOf(plNodes[i])}
       /\ \E j \in 1..(i - 1) : Overlaps(plNodes[i], plNodes[j], LabelGap, 1)

C9_StaysInBand ==
  PassDone =>
    \A i \in 1..Len(plNodes) :
      IF plBand = "top" THEN plNodes[i].top <= PlBase * PushDen
      ELSE plNodes[i].top >= PlBase * PushDen

\* room to stack every card of the band beyond the base position, twice over
\* (a push overshoots by less than the height of one more card)
AmpleRoom ==
  LET room == IF plBand = "top" THEN PlBase - ViewportPad
              ELSE plSize.height - ViewportPad - PlBase
  IN room >= 2 * SumHeights(plNodes) + 2 * ViewportPad

Hovering == hovered # NoHover
CardTitles == { mcuLabels[i].title : i \in 1..Len(mcuLabels) }
LitDots == { movies[i].title : i \in { j \in 1..Len(dotStyle) :
                                        dotStyle[j].opacity = FullOpacity } }
InCatalog(t) == HasTitle(movies, t)
\* the movies a relationship of CONNECTIONS ties to t, in either direction
ConnectedInData(t) ==
  { CONNECTIONS[i].to : i \in { j \in 1..Len(CONNECTIONS) :
        CONNECTIONS[j].from = t /\ InCatalog(CONNECTIONS[j].to) } }
  \cup
  { CONNECTIONS[i].from : i \in { j \in 1..Len(CONNECTIONS) :
        CONNECTIONS[j].to = t /\ InCatalog(CONNECTIONS[j].from) } }
\* the targets of the drawn arcs that leave t
OutgoingDrawn(t) ==
  { arcsWithLane[i].to : i \in { j \in 1..Len(arcsWithLane) :
                                  arcsWithLane[j].from = t } }

\* C11 as stated: while a dot is hovered the highlighted dots are the hovered
\* movie plus every movie a relationship of CONNECTIONS connects to it, and
\* the cards on show are exactly one per member of that set.
C11_HighlightAllConnected ==
  Hovering =>
    /\ LitDots = {hovered} \cup ConnectedInData(hovered)
    /\ mcuLabels # <<>> =>
         /\ CardTitles = {hovered} \cup ConnectedInData(hovered)
         /\ Len(mcuLabels) = Cardinality(CardTitles)

\* C11 amended: while a dot is hovered the highlighted dots are the hovered
\* movie plus the target of every drawn arc (after the type filter) that
\* starts at the hovered movie, and the cards on show are exactly one per
\* member of that set; a movie tied to the hovered one only by an incoming
\* or a filtered-out relationship is not in the set.
C11_HighlightOutgoingDrawn ==
  Hovering =>
    /\ LitDots = {hovered} \cup OutgoingDrawn(hovered)
    /\ mcuLabels # <<>> =>
         /\ CardTitles = {hovered} \cup OutgoingDrawn(hovered)
         /\ Len(mcuLabels) = Cardinality(CardTitles)

\* a hovered movie with an outgoing and an incoming drawn arc, cards on show
C11_Witness ==
  /\ Hovering
  /\ Len(mcuLabels) >= 2
  /\ \E i \in 1..Len(arcsWithLane) : arcsWithLane[i].to = hovered
  /\ LitDots # {hovered} \cup ConnectedInData(hovered)

\* C12: pointer-leave returns the view to idle, and after any sequence of
\* pointer-enter, pointer-leave, filter and resize events no card exists and
\* every dot and arc has its base attributes while no dot is hovered.
C12_IdleHasNoCards ==
  ~Hovering =>
    /\ mcuLabels = <<>>
    /\ \A i \in 1..Len(dotStyle) : dotStyle[i] = BaseDot
    /\ \A i \in 1..Len(arcLook) : arcLook[i] = BaseArc(arcsWithLane[i])

\* C13: every layout pass starts from scratch: the cards a pointer-enter
\* leaves are those it would leave in an empty overlay, whatever cards
\* earlier hovers left behind and wherever those ended up.
C13_LayoutFromScratch ==
  [][(~Hovering /\ hovered' # NoHover) =>
       mcuLabels' = RenderMultiTooltips(hovered', <<>>, movies, arcsWithLane,
                                        drawnSize, box, pxDen)]_vars

\* a hover that found cards of an earlier hover and moved one of them
C13_Witness ==
  /\ Hovering
  /\ \E i \in 1..Len(mcuLabels) : \E j \in 1..Len(staleCards) :
       /\ staleCards[j].title = mcuLabels[i].title
       /\ staleCards[j].top # mcuLabels[i].top
  /\ \E j \in 1..Len(staleCards) : staleCards[j].title \notin CardTitles

(* ----------------------- claims: ratings chart ------------------------- *)
RtHoverEvent ==
  \/ \E y \in {0, 2012, 2013, 2015} : \E px \in PointerXs : RtMouseOver(y, px)
  \/ \E px \in PointerXs : RtMouseMove(px)
  \/ RtMouseOut

\* C14: mouseover, mousemove and mouseout on the ratings chart never change
\* the pinned year: the selection of App, and the binding the handlers read,
\* are the same before and after every hover event.
C14_HoverKeepsPinned ==
  [][RtHoverEvent => /\ selectedReviewsYear' = selectedReviewsYear
                     /\ closureYear' = closureYear]_vars

\* a year is pinned and the pointer is on the circle of another year
C14_Witness ==
  /\ selectedReviewsYear # NoYear
  /\ rtHover # NoYear
  /\ rtHover # selectedReviewsYear
  /\ rtTooltip.visible

UpToDate == Positive(size) /\ movies # <<>>
Resolvable(i) ==
  InCatalog(CONNECTIONS[i].from) /\ InCatalog(CONNECTIONS[i].to)
PassesFilter(i) == filterMode = "all" \/ CONNECTIONS[i].type = filterMode

\* C18: a relationship whose from or to title is not in the catalog is left
\* out of the drawn arcs, and every relationship whose two titles are in the
\* catalog is drawn, once, when its type passes the filter; a missing title
\* does not stop the others from being drawn.
C18_MissingTitlesDropped ==
  UpToDate =>
    /\ { arcsWithLane[k].idx : k \in 1..Len(arcsWithLane) }
         = { i \in 1..Len(CONNECTIONS) : Resolvable(i) /\ PassesFilter(i) }
    /\ \A k, l \in 1..Len(arcsWithLane) :
         arcsWithLane[k].idx = arcsWithLane[l].idx => k = l

\* arcs are drawn although a title of the file has no row in the catalog
C18_Witness ==
  /\ UpToDate
  /\ arcsWithLane # <<>>
  /\ \E i \in 1..Len(CsvTitles) : ~InCatalog(CsvTitles[i])
  /\ \E i \in 1..Len(CONNECTIONS) :
       InCatalog(CONNECTIONS[i].from) /\ ~InCatalog(CONNECTIONS[i].to)

(* --------------------- claims: loading and unmounting ------------------ *)
\* C16: once App and its charts are unmounted, the completion of a fetch
\* that was in flight, successful or failed, changes the data state of no
\* chart: connections, timeline, dot plot, revenue bars, ratings line, reviews.
C16_NoCommitAfterUnmount ==
  [][~mounted => UNCHANGED << movies, tlMovies, bins, yearDomain, rvMovies,
                              rtMovies, rwMovies, rwReviews >>]_vars

\* C17: a failed fetch or parse is caught inside the chart: no rejection is
\* left without a handler, the data state of the chart is the empty
\* collection and nothing is drawn for it, for every chart that loads data.
C17_FailuresCaughtAndEmpty ==
  /\ unhandled = {}
  /\ loadState = "failed" => movies = <<>> /\ arcsWithLane = <<>>
  /\ tlLoadState = "failed" => tlMovies = <<>> /\ importantWithLanes = <<>>
  /\ dpLoadState = "failed" => bins = <<>> /\ yearDomain = NoDomain /\ dpDots = <<>>
  /\ rvLoadState = "failed" => rvMovies = <<>> /\ rvBars = <<>>
  /\ rtLoadState = "failed" => rtMovies = <<>> /\ rtPoints = <<>>
  /\ rwLoadState = "failed" => rwMovies = <<>> /\ rwReviews = <<>>

(* ------------------------ claims: RevenueBarChart ---------------------- *)
\* C20: drawing the revenue bar chart does not throw for a non-empty
\* dataset, whichever release years the dataset has.
C20_RevenueDrawNeverThrows ==
  rvMovies # <<>> => "RevenueBarChart" \notin thrown

(* ------------------------- claims: draw guards ------------------------- *)
\* C19: every change of movies, size or filter of the connections chart,
\* and of movies or size of the timeline, runs the check again: when the
\* movie list is empty or the width or height is not positive the step draws
\* nothing (the svg keeps what it had and no label is added), and as soon as
\* the list is non-empty and the size positive the step draws the chart of
\* the new values; a chart whose catalog is empty has no arcs, no dots, no
\* lanes and no labels.
C19_GuardedDrawing ==
  [][/\ << movies, size, filterMode >>' # << movies, size, filterMode >> =>
          IF Positive(size') /\ movies' # <<>>
          THEN /\ arcsWithLane' = ArcsWithLane(movies', size'.width, filterMode')
               /\ drawnSize' = size'
               /\ Len(dotStyle') = Len(movies')
          ELSE /\ UNCHANGED << arcsWithLane, pxDen, drawnSize, dotStyle, arcLook >>
               /\ SeqRange(mcuLabels') \subseteq SeqRange(mcuLabels)
     /\ << tlMovies, tlSize >>' # << tlMovies, tlSize >> =>
          IF Positive(tlSize') /\ tlMovies' # <<>>
          THEN importantWithLanes' = ImportantWithLanes(tlMovies', tlSize'.width)
          ELSE UNCHANGED << importantWithLanes, tlDen >>
     /\ movies' = <<>> =>
          arcsWithLane' = <<>> /\ dotStyle' = <<>> /\ mcuLabels' = <<>>
     /\ tlMovies' = <<>> => importantWithLanes' = <<>>
    ]_vars

\* the connections chart has been drawn, once its catalog and its size were
\* both there, a later size of zero has left that drawing alone, and the
\* timeline, with a positive size and an empty catalog, has drawn nothing
C19_Witness ==
  /\ movies # <<>> /\ ~Positive(size) /\ arcsWithLane # <<>> /\ Positive(drawnSize)
  /\ tlLoadState = "done" /\ tlMovies = <<>> /\ Positive(tlSize)
  /\ importantWithLanes = <<>>

(* ----------------- claims: hover and the type filter ------------------- *)
\* the targets of the relationships that start at t, have both movies in the
\* catalog and are visible under the current type filter
VisibleTargets(t) ==
  { CONNECTIONS[i].to : i \in { j \in 1..Len(CONNECTIONS) :
        CONNECTIONS[j].from = t /\ Resolvable(j) /\ PassesFilter(j) } }
DimDots == { movies[i].title : i \in { j \in 1..Len(dotStyle) :
                                        dotStyle[j].opacity < FullOpacity } }

\* C26: while a dot is hovered, the highlighted movies are exactly the
\* hovered movie and the targets of the arcs that start at it and are
\* visible under the current type filter; every other movie, such as one
\* that only has an arc pointing to the hovered movie or whose arc the
\* filter hides, is dimmed and has no label card.
C26_HighlightVisibleTargets ==
  Hovering =>
    /\ LitDots = {hovered} \cup VisibleTargets(hovered)
    /\ DimDots = { movies[i].title : i \in 1..Len(movies) }
                   \ ({hovered} \cup VisibleTargets(hovered))
    /\ CardTitles \subseteq {hovered} \cup VisibleTargets(hovered)

(* --------------------- claims: the degenerate scale -------------------- *)
SingleDate == movies # <<>> /\ MinDate(movies) = MaxDateOf(movies)

Loaded == loadState = "done" /\ movies # <<>>
DatesOfPhase(p) ==
  { movies[i].releaseDate : i \in { j \in 1..Len(movies) : movies[j].phase = p } }
EarliestOf(p) == CHOOSE d \in DatesOfPhase(p) : \A e \in DatesOfPhase(p) : d <= e
LatestOf(p) == CHOOSE d \in DatesOfPhase(p) : \A e \in DatesOfPhase(p) : d >= e

\* C23: the phase ranges are contiguous: there is one range per phase that
\* has a movie, in phase order; the first starts at the earliest release
\* date, the last ends at the latest release date, and each range ends
\* where the next starts, halfway between the last release of its phase and
\* the first release of the next phase (values in half days).
C23_RangesContiguous ==
  Loaded =>
    /\ { phaseRanges[i].phase : i \in 1..Len(phaseRanges) }
         = { movies[i].phase : i \in 1..Len(movies) }
    /\ phaseRanges[1].start = PhaseDen * MinDate(movies)
    /\ phaseRanges[Len(phaseRanges)].end = PhaseDen * MaxDateOf(movies)
    /\ \A i \in 1..(Len(phaseRanges) - 1) :
         /\ phaseRanges[i].phase < phaseRanges[i + 1].phase
         /\ phaseRanges[i].end = phaseRanges[i + 1].start
         /\ phaseRanges[i].end = LatestOf(phaseRanges[i].phase)
                                   + EarliestOf(phaseRanges[i + 1].phase)

\* three ranges, with a boundary that falls between two release dates
C23_Witness ==
  /\ Loaded
  /\ Len(phaseRanges) = 3
  /\ \E i \in 1..2 : phaseRanges[i].end % PhaseDen = 1

\* C30: every phase range has start <= end, for any catalog, also when the
\* release dates of different phases interleave.
C30_StartBeforeEnd ==
  \A i \in 1..Len(phaseRanges) : phaseRanges[i].start <= phaseRanges[i].end

(* ------------------------ claims: number of lanes ---------------------- *)
ArcsOfSide(side) == { i \in ArcIdx : arcsWithLane[i].side = side }
LanesUsed(side) == { arcsWithLane[i].lane : i \in ArcsOfSide(side) }
\* the arcs of a side whose span, expanded by the gap, holds the point p
ArcsAt(side, p) ==
  { i \in ArcsOfSide(side) :
      arcsWithLane[i].leftX <= p /\ p <= arcsWithLane[i].rightX + LaneGap * pxDen }
\* a largest set of arcs of a side that conflict at one point has one of
\* the left ends as such a point
MaxConflict(side) ==
  LET counts == { Cardinality(ArcsAt(side, arcsWithLane[i].leftX)) :
                    i \in ArcsOfSide(side) }
  IN IF counts = {} THEN 0 ELSE CHOOSE c \in counts : \A e \in counts : c >= e

\* C25: on each side the lanes in use are 0 .. n - 1 where n is the largest
\* number of arcs of the side that conflict at a single point (spans
\* expanded by the gap), the fewest lanes any overlap-free assignment needs.
C25_LanesEqualMaxConflict ==
  \A side \in {"top", "bottom"} :
    LanesUsed(side) = 0..(MaxConflict(side) - 1)

\* a side with more arcs than lanes and more than one lane
C25_Witness ==
  \E side \in {"top", "bottom"} :
    /\ Cardinality(LanesUsed(side)) >= 2
    /\ Cardinality(ArcsOfSide(side)) > Cardinality(LanesUsed(side))

(* --------------------------- claims: dot plot -------------------------- *)
DpDrawn == dpDots # <<>>
DrawnMinYear == dpDots[1].year
DrawnMaxYear == dpDots[Len(dpDots)].year

\* C24: the tick list of the dot plot is minYear, minYear + yearStep,
\* minYear + 2 yearStep, ... with maxYear as last entry: no year is in the
\* list twice, every tick is a whole number of steps after minYear or is
\* maxYear, and the list ends with maxYear.
C24_TicksDownsampled ==
  DpDrawn =>
    /\ \A i, j \in 1..Len(tickYears) : tickYears[i] = tickYears[j] => i = j
    /\ \A i \in 1..Len(tickYears) :
         \/ tickYears[i] = DrawnMaxYear
         \/ (tickYears[i] - DrawnMinYear)
              % YearStep(DrawnMinYear, DrawnMaxYear, dpSize.width) = 0
    /\ tickYears[1] = DrawnMinYear
    /\ tickYears[Len(tickYears)] = DrawnMaxYear

(* -------------- claims: the pinned point and its handlers -------------- *)
\* C27: whenever the pointer is over no point of the ratings chart, the
\* point of the pinned year, if a year is pinned, is drawn enlarged and every
\* other point at normal size.
C27_PinnedPointEnlarged ==
  rtHover = NoYear =>
    rtBig = IF selectedReviewsYear # NoYear /\ IsPoint(selectedReviewsYear)
            THEN {selectedReviewsYear} ELSE {}

\* C28: the pinned year the click and mouseout handlers of the ratings chart
\* read is the pinned year of App, the one the review list is filtered by.
C28_HandlersSeePinnedYear ==
  /\ closureYear = selectedReviewsYear
  /\ filteredReviews = FilteredReviews(rwMovies, rwReviews, closureYear)

\* a year was pinned, the reviews of its movies are on show, and the chart
\* has been redrawn since, the pointer now on the point of another year
C28_Witness ==
  /\ selectedReviewsYear # NoYear
  /\ filteredReviews # <<>>
  /\ rtHover # NoYear /\ rtHover # selectedReviewsYear
  /\ selectedReviewsYear \notin rtBig

\* C29: after any sequence of redraws the container of each chart holds at
\* most one tooltip overlay element: the connections chart one
\* div.mcu-multi-tooltips, the ratings chart one #average-ratings-tooltip,
\* the revenue chart one #revenue-comparison-tooltip.
C29_AtMostOneTooltip ==
  /\ overlays <= 1
  /\ rtTooltips <= 1
  /\ rvTooltips <= 1

====
